---- MODULE Spec2Model ----
(***************************************************************************)
(* Technical-analysis engine of mine24-stock: indicators, key levels,      *)
(* Wyckoff phase detection, target / cut-loss calculation and the          *)
(* recommendation scorer.                                                  *)
(*                                                                         *)
(* A JavaScript `number` is modelled as a fixed-point integer counting     *)
(* 1/Scale units (four decimals); every division rounds to the nearest     *)
(* unit the way an IEEE division rounds to the nearest double.  A          *)
(* `number | null` is a sequence: <<>> is null and <<v>> is the number v.  *)
(***************************************************************************)
EXTENDS Integers, Sequences, FiniteSets, TLC

\* ------------------------------------------------------------------------
\* Fixed-point numbers
\* ------------------------------------------------------------------------
Scale == 100 * 100

Fx(n) == n * Scale

Abs(x) == IF x < 0 THEN 0 - x ELSE x

MaxOf(a, b) == IF a >= b THEN a ELSE b

MinOf(a, b) == IF a <= b THEN a ELSE b

\* a / b rounded to the nearest integer, halves towards +infinity (b > 0)
RDiv(a, b) == (a \div b) + (IF 2 * (a % b) >= b THEN 1 ELSE 0)

\* x * (num / den) for a decimal literal num/den such as 0.95 = 95/100
FxMul(x, num, den) == RDiv(x * num, den)

\* (a / b) as a fixed-point number, by long division so that no intermediate
\* product leaves the 32-bit integers (b > 0)
RECURSIVE FracDigits(_, _, _)
FracDigits(r, b, unit) ==
  IF unit = 1 THEN 0
  ELSE ((r * 10) \div b) * (unit \div 10) + FracDigits((r * 10) % b, b, unit \div 10)

FxDiv(a, b) ==
  IF a >= 0 THEN (a \div b) * Scale + FracDigits(a % b, b, Scale)
  ELSE 0 - ((Abs(a) \div b) * Scale + FracDigits(Abs(a) % b, b, Scale))

\* Math.round(x * 100) / 100
Round2(x) == RDiv(x * 100, Scale) * (Scale \div 100)

Null == <<>>

Some(v) == <<v>>

IsNull(x) == x = <<>>

Val(x) == x[1]

\* JavaScript truthiness of a number | null: null and 0 are falsy
Truthy(x) == x # <<>> /\ x[1] # 0

\* the loops of the source are unfolded by halving the index range, which
\* visits the elements in the same order
RECURSIVE SumFrom(_, _, _)
SumFrom(s, i, j) ==
  IF i > j THEN 0
  ELSE IF i = j THEN s[i]
  ELSE SumFrom(s, i, (i + j) \div 2) + SumFrom(s, (i + j) \div 2 + 1, j)

\* Array.prototype.slice(from, to) on 1-based positions from..to
Slice(s, from, to) == [k \in 1..(to - from + 1) |-> s[from + k - 1]]

\* Math.max(...xs) / Math.min(...xs) of a non-empty array
RECURSIVE MaxFrom(_, _, _)
MaxFrom(s, i, j) ==
  IF i = j THEN s[i]
  ELSE MaxOf(MaxFrom(s, i, (i + j) \div 2), MaxFrom(s, (i + j) \div 2 + 1, j))

RECURSIVE MinFrom(_, _, _)
MinFrom(s, i, j) ==
  IF i = j THEN s[i]
  ELSE MinOf(MinFrom(s, i, (i + j) \div 2), MinFrom(s, (i + j) \div 2 + 1, j))

\* ------------------------------------------------------------------------
\* indicators.ts
\* ------------------------------------------------------------------------
calculateSMA(prices, period) ==
  IF Len(prices) < period THEN Null
  ELSE Some(RDiv(SumFrom(prices, Len(prices) - period + 1, Len(prices)), period))

\* the values the loop of calculateEMA pushes for prices i..j, prev being
\* the last value pushed before
RECURSIVE EMAFrom(_, _, _, _, _)
EMAFrom(prices, period, i, j, prev) ==
  IF i > j THEN <<>>
  ELSE IF i = j THEN <<RDiv((prices[i] - prev) * 2, period + 1) + prev>>
  ELSE LET left == EMAFrom(prices, period, i, (i + j) \div 2, prev)
       IN  left \o EMAFrom(prices, period, (i + j) \div 2 + 1, j, left[Len(left)])

\* ema = [firstSMA] followed by the values of the loop
EMASeeded(prices, period, firstSMA) ==
  <<firstSMA>> \o EMAFrom(prices, period, period + 1, Len(prices), firstSMA)

calculateEMA(prices, period) ==
  IF Len(prices) < period THEN <<>>
  ELSE EMASeeded(prices, period, RDiv(SumFrom(prices, 1, period), period))

\* the seeding loop of calculateRSI: sums of the first period gains / losses
SeedGain(changes, period) ==
  SumFrom([k \in 1..period |-> IF changes[k] > 0 THEN changes[k] ELSE 0], 1, period)

SeedLoss(changes, period) ==
  SumFrom([k \in 1..period |-> IF changes[k] > 0 THEN 0 ELSE Abs(changes[k])], 1, period)

\* the smoothing loop of calculateRSI over changes i..j: avg = <<avgGain, avgLoss>>
RECURSIVE WilderSmooth(_, _, _, _, _)
WilderSmooth(changes, period, i, j, avg) ==
  IF i > j THEN avg
  ELSE IF i = j
  THEN IF changes[i] > 0
       THEN <<RDiv(avg[1] * (period - 1) + changes[i], period),
              RDiv(avg[2] * (period - 1), period)>>
       ELSE <<RDiv(avg[1] * (period - 1), period),
              RDiv(avg[2] * (period - 1) + Abs(changes[i]), period)>>
  ELSE LET left == WilderSmooth(changes, period, i, (i + j) \div 2, avg)
       IN  \* the first half is evaluated before the second half starts
           IF Len(left) = 2
           THEN WilderSmooth(changes, period, (i + j) \div 2 + 1, j, left)
           ELSE left

\* 100 - 100 / (1 + ratio), the closing formula of calculateRSI and calculateMFI
Oscillator(ratio) == Some(Fx(100) - FxDiv(Fx(100), Scale + ratio))

\* variant: a zero average loss is replaced by the smallest positive number
RSIOfSmallestLoss(avg) == Oscillator(FxDiv(avg[1], MaxOf(avg[2], 1)))

\* if (avgLoss === 0) return 100; rs = avgGain / avgLoss
RSIOf(avg) == IF avg[2] = 0 THEN Some(Fx(100)) ELSE Oscillator(FxDiv(avg[1], avg[2]))

\* the two loops of calculateRSI over the price changes
RSIOfChanges(changes, period) ==
  RSIOf(WilderSmooth(changes, period, period + 1, Len(changes),
                     <<RDiv(SeedGain(changes, period), period),
                       RDiv(SeedLoss(changes, period), period)>>))

calculateRSI(prices, period) ==
  IF Len(prices) < period + 1 THEN Null
  ELSE RSIOfChanges([i \in 1..(Len(prices) - 1) |-> prices[i + 1] - prices[i]], period)

\* the bucket loop of calculateMFI from index first to the last bar
FlowFrom(typicalPrices, rawMoneyFlow, first, positive) ==
  SumFrom([i \in 1..Len(typicalPrices) |->
             IF i < first THEN 0
             ELSE IF positive /\ typicalPrices[i] > typicalPrices[i - 1] THEN rawMoneyFlow[i]
             ELSE IF ~positive /\ typicalPrices[i] < typicalPrices[i - 1] THEN rawMoneyFlow[i]
             ELSE 0], first, Len(typicalPrices))

\* if (negativeFlow === 0) return 100; moneyFlowRatio = positiveFlow / negativeFlow
MFIOf(positiveFlow, negativeFlow) ==
  IF negativeFlow = 0 THEN Some(Fx(100)) ELSE Oscillator(FxDiv(positiveFlow, negativeFlow))

\* the bucket loop of calculateMFI over the last period bars
MFIOfFlows(typicalPrices, rawMoneyFlow, first) ==
  MFIOf(FlowFrom(typicalPrices, rawMoneyFlow, first, TRUE),
        FlowFrom(typicalPrices, rawMoneyFlow, first, FALSE))

\* rawMoneyFlow = typicalPrices.map((tp, i) => tp * prices[i].volume)
MFIOfTypical(prices, typicalPrices, period) ==
  MFIOfFlows(typicalPrices,
             [i \in 1..Len(prices) |-> typicalPrices[i] * prices[i].volume],
             Len(prices) - period + 1)

calculateMFI(prices, period) ==
  IF Len(prices) < period + 1 THEN Null
  ELSE MFIOfTypical(prices,
                    [i \in 1..Len(prices) |->
                       RDiv(prices[i].high + prices[i].low + prices[i].close, 3)],
                    period)

NullMACD == [macdLine |-> Null, signal |-> Null, histogram |-> Null]

\* the alignment loop of calculateMACD over slowEMA indices i..j
RECURSIVE MacdFrom(_, _, _, _, _)
MacdFrom(fastEMA, slowEMA, shift, i, j) ==
  IF i > j THEN <<>>
  ELSE IF i = j
  THEN LET fastIdx == i + shift
       IN  IF fastIdx >= 1 /\ fastIdx <= Len(fastEMA)
           THEN <<fastEMA[fastIdx] - slowEMA[i]>> ELSE <<>>
  ELSE MacdFrom(fastEMA, slowEMA, shift, i, (i + j) \div 2)
       \o MacdFrom(fastEMA, slowEMA, shift, (i + j) \div 2 + 1, j)

\* histogram: signal !== null ? macdLine - signal : null
MACDResult(macdLine, signal) ==
  [macdLine |-> Some(macdLine), signal |-> signal,
   histogram |-> IF signal # Null THEN Some(macdLine - Val(signal)) ELSE Null]

\* signal = signalEMA.length > 0 ? last of signalEMA : null
MACDOfSignal(macdLine, signalEMA) ==
  MACDResult(macdLine, IF Len(signalEMA) > 0 THEN Some(signalEMA[Len(signalEMA)]) ELSE Null)

\* if (macdValues.length < signalPeriod) return nulls
MACDOfValues(macdValues, signalPeriod) ==
  IF Len(macdValues) < signalPeriod THEN NullMACD
  ELSE MACDOfSignal(macdValues[Len(macdValues)], calculateEMA(macdValues, signalPeriod))

\* if (fastEMA.length === 0 || slowEMA.length === 0) return nulls
MACDOfEMAs(fastEMA, slowEMA, shift, signalPeriod) ==
  IF Len(fastEMA) = 0 \/ Len(slowEMA) = 0 THEN NullMACD
  ELSE MACDOfValues(MacdFrom(fastEMA, slowEMA, shift, 1, Len(slowEMA)), signalPeriod)

\* variant: the length guard on the input series is missing
calculateMACDUnguarded(prices, fastPeriod, slowPeriod, signalPeriod) ==
  MACDOfEMAs(calculateEMA(prices, fastPeriod), calculateEMA(prices, slowPeriod),
             slowPeriod - fastPeriod, signalPeriod)

\* variant: the loop aligns by the unused local `offset`, fastPeriod - 1
calculateMACDByOffset(prices, fastPeriod, slowPeriod, signalPeriod) ==
  IF Len(prices) < slowPeriod + signalPeriod THEN NullMACD
  ELSE MACDOfEMAs(calculateEMA(prices, fastPeriod), calculateEMA(prices, slowPeriod),
                  fastPeriod - slowPeriod + slowPeriod - 1, signalPeriod)

calculateMACD(prices, fastPeriod, slowPeriod, signalPeriod) ==
  IF Len(prices) < slowPeriod + signalPeriod THEN NullMACD
  ELSE MACDOfEMAs(calculateEMA(prices, fastPeriod), calculateEMA(prices, slowPeriod),
                  slowPeriod - fastPeriod, signalPeriod)

\* [...prices].sort((a, b) => a.date - b.date): a sorted copy
SortByDate(prices) == SortSeq(prices, LAMBDA a, b : a.date < b.date)

NullIndicators ==
  [ma20 |-> Null, ma50 |-> Null, ma200 |-> Null, rsi14 |-> Null, mfi14 |-> Null,
   macdLine |-> Null, macdSignal |-> Null, macdHistogram |-> Null,
   volumeAvg20 |-> Null, volumeRatio |-> Null]

\* the record calculateIndicators returns; volumeRatio = volumeAvg20 ?
\* currentVolume / volumeAvg20 : null
IndicatorValues(sortedPrices, closes, macd, volumeAvg20, currentVolume) ==
  [ma20 |-> calculateSMA(closes, 20),
   ma50 |-> calculateSMA(closes, 50),
   ma200 |-> calculateSMA(closes, 200),
   rsi14 |-> calculateRSI(closes, 14),
   mfi14 |-> calculateMFI(sortedPrices, 14),
   macdLine |-> macd.macdLine,
   macdSignal |-> macd.signal,
   macdHistogram |-> macd.histogram,
   volumeAvg20 |-> volumeAvg20,
   volumeRatio |-> IF Truthy(volumeAvg20)
                   THEN Some(FxDiv(Fx(currentVolume), Val(volumeAvg20))) ELSE Null]

\* variant: the mean of the last 20 volumes is not rounded
IndicatorsOfUnrounded(sortedPrices, closes, volumes) ==
  IndicatorValues(sortedPrices, closes, calculateMACD(closes, 12, 26, 9),
                  IF Len(volumes) >= 20
                  THEN Some(RDiv(Fx(SumFrom(volumes, Len(volumes) - 19, Len(volumes))), 20))
                  ELSE Null,
                  volumes[Len(volumes)])

\* volumeAvg20 = Math.round(mean of the last 20 volumes), or null
IndicatorsOf(sortedPrices, closes, volumes) ==
  IndicatorValues(sortedPrices, closes, calculateMACD(closes, 12, 26, 9),
                  IF Len(volumes) >= 20
                  THEN Some(Fx(RDiv(SumFrom(volumes, Len(volumes) - 19, Len(volumes)), 20)))
                  ELSE Null,
                  volumes[Len(volumes)])

\* closes and volumes of the sorted copy
IndicatorsSorted(sortedPrices) ==
  IndicatorsOf(sortedPrices,
               [i \in 1..Len(sortedPrices) |-> sortedPrices[i].close],
               [i \in 1..Len(sortedPrices) |-> sortedPrices[i].volume])

calculateIndicators(prices) ==
  IF Len(prices) = 0 THEN NullIndicators
  ELSE IndicatorsSorted(SortByDate(prices))

\* variant: a price above both averages is bullish whatever their order
identifyTrendByPrice(currentPrice, ma20, ma50, ma200) ==
  IF ~Truthy(ma20) \/ ~Truthy(ma50) THEN "neutral"
  ELSE LET aboveMa20 == currentPrice > Val(ma20)
           aboveMa50 == currentPrice > Val(ma50)
           ma20AboveMa50 == Val(ma20) > Val(ma50)
       IN  IF aboveMa20 /\ aboveMa50 THEN "bullish"
           ELSE IF ~aboveMa20 /\ ~aboveMa50 /\ ~ma20AboveMa50 THEN "bearish"
           ELSE "neutral"

identifyTrend(currentPrice, ma20, ma50, ma200) ==
  IF ~Truthy(ma20) \/ ~Truthy(ma50) THEN "neutral"
  ELSE LET aboveMa20 == currentPrice > Val(ma20)
           aboveMa50 == currentPrice > Val(ma50)
           ma20AboveMa50 == Val(ma20) > Val(ma50)
       IN  IF aboveMa20 /\ aboveMa50 /\ ma20AboveMa50 THEN "bullish"
           ELSE IF ~aboveMa20 /\ ~aboveMa50 /\ ~ma20AboveMa50 THEN "bearish"
           ELSE "neutral"

\* changePercent = (secondHalfAvg - firstHalfAvg) / firstHalfAvg * 100 is
\* compared exactly; a zero firstHalfAvg gives Infinity (increasing) or NaN
VolumeChange(firstSum, secondSum, firstLen, secondLen) ==
  IF firstSum = 0
  THEN (IF secondSum > 0 THEN "increasing" ELSE "stable")
  \* (secondSum/secondLen - firstSum/firstLen) / (firstSum/firstLen) * 100
  ELSE IF (secondSum * firstLen - firstSum * secondLen) * 100 > 20 * (firstSum * secondLen)
  THEN "increasing"
  ELSE IF (secondSum * firstLen - firstSum * secondLen) * 100 < (0 - 20) * (firstSum * secondLen)
  THEN "decreasing"
  ELSE "stable"

\* the two halves of the recent volumes
VolumeHalves(vol, lookback, half) ==
  VolumeChange(SumFrom(vol, 1, half), SumFrom(vol, half + 1, lookback), half, lookback - half)

analyzeVolume(prices, lookback) ==
  IF Len(prices) < lookback THEN "stable"
  ELSE VolumeHalves([i \in 1..lookback |-> prices[Len(prices) - lookback + i].volume],
                    lookback, lookback \div 2)

\* ------------------------------------------------------------------------
\* wyckoff.ts
\* ------------------------------------------------------------------------
\* pivots pushed by the loop of findKeyLevels for indices i..j (1-based)
RECURSIVE PivotsFrom(_, _, _)
PivotsFrom(sortedPrices, i, j) ==
  IF i > j THEN <<>>
  ELSE IF i = j
  THEN LET prev2 == sortedPrices[i - 2]
           prev1 == sortedPrices[i - 1]
           curr == sortedPrices[i]
           next1 == sortedPrices[i + 1]
           next2 == sortedPrices[i + 2]
       IN  (IF curr.high > prev1.high /\ curr.high > prev2.high
               /\ curr.high > next1.high /\ curr.high > next2.high
            THEN <<curr.high>> ELSE <<>>)
           \o (IF curr.low < prev1.low /\ curr.low < prev2.low
                  /\ curr.low < next1.low /\ curr.low < next2.low
               THEN <<curr.low>> ELSE <<>>)
  ELSE PivotsFrom(sortedPrices, i, (i + j) \div 2)
       \o PivotsFrom(sortedPrices, (i + j) \div 2 + 1, j)

\* variant: the oldest bar is read instead of the last one
FirstCloseOrZero(prices) == IF Len(prices) = 0 THEN 0 ELSE prices[1].close

\* prices[prices.length - 1]?.close || 0
LastCloseOrZero(prices) == IF Len(prices) = 0 THEN 0 ELSE prices[Len(prices)].close

\* level || fallback: 0 is falsy
LevelOr(level, fallback) == IF level = 0 THEN fallback ELSE level

\* variant: the farthest pivot on each side is taken instead of the nearest
FarthestLevels(supports, resistances, pivots, currentPrice) ==
  [support |-> IF supports = {} THEN FxMul(currentPrice, 95, 100)
               ELSE LevelOr(CHOOSE m \in supports : \A x \in supports : m <= x,
                            FxMul(currentPrice, 95, 100)),
   resistance |-> IF resistances = {} THEN FxMul(currentPrice, 105, 100)
                  ELSE LevelOr(CHOOSE m \in resistances : \A x \in resistances : x <= m,
                               FxMul(currentPrice, 105, 100)),
   pivotPoints |-> pivots]

\* supports[0] after the descending sort, resistances[0] after the ascending
\* sort; undefined is falsy
NearestLevels(supports, resistances, pivots, currentPrice) ==
  [support |-> IF supports = {} THEN FxMul(currentPrice, 95, 100)
               ELSE LevelOr(CHOOSE m \in supports : \A x \in supports : x <= m,
                            FxMul(currentPrice, 95, 100)),
   resistance |-> IF resistances = {} THEN FxMul(currentPrice, 105, 100)
                  ELSE LevelOr(CHOOSE m \in resistances : \A x \in resistances : m <= x,
                               FxMul(currentPrice, 105, 100)),
   pivotPoints |-> pivots]

\* pivotPoints.filter(p => p < currentPrice) and .filter(p => p > currentPrice)
LevelsOfPivots(pivots, currentPrice) ==
  NearestLevels({pivots[k] : k \in {j \in 1..Len(pivots) : pivots[j] < currentPrice}},
                {pivots[k] : k \in {j \in 1..Len(pivots) : pivots[j] > currentPrice}},
                pivots, currentPrice)

\* variant: the current price is read from the oldest bar
LevelsAroundOldest(sortedPrices) ==
  LevelsOfPivots(PivotsFrom(sortedPrices, 3, Len(sortedPrices) - 2),
                 sortedPrices[1].close)

LevelsSorted(sortedPrices) ==
  LevelsOfPivots(PivotsFrom(sortedPrices, 3, Len(sortedPrices) - 2),
                 sortedPrices[Len(sortedPrices)].close)

\* the band of 5% around a price
DefaultLevels(currentPrice) ==
  [support |-> FxMul(currentPrice, 95, 100),
   resistance |-> FxMul(currentPrice, 105, 100),
   pivotPoints |-> <<>>]

findKeyLevels(prices) ==
  IF Len(prices) < 20
  THEN DefaultLevels(LastCloseOrZero(prices))
  ELSE LevelsSorted(SortByDate(prices))

\* rangePercent = (rangeHigh - rangeLow) / rangeLow * 100 < 15, compared
\* exactly; a zero rangeLow gives Infinity or NaN, which is not < 15
NarrowRange(rangeHigh, rangeLow) ==
  rangeLow # 0 /\ (rangeHigh - rangeLow) * 100 < 15 * rangeLow

detectConsolidation(prices, lookback) ==
  IF Len(prices) < lookback THEN FALSE
  ELSE NarrowRange(
         MaxFrom([i \in 1..lookback |-> prices[Len(prices) - lookback + i].high], 1, lookback),
         MinFrom([i \in 1..lookback |-> prices[Len(prices) - lookback + i].low], 1, lookback))

\* chunk i (0-based) of hasHigherLows / hasLowerHighs
Chunk(prices, i, chunkSize) == Slice(prices, i * chunkSize + 1, (i + 1) * chunkSize)

\* Math.min(...chunk.map(p => p.low)) / Math.max(...chunk.map(p => p.high))
ChunkLow(chunk) == MinFrom([k \in 1..Len(chunk) |-> chunk[k].low], 1, Len(chunk))

ChunkHigh(chunk) == MaxFrom([k \in 1..Len(chunk) |-> chunk[k].high], 1, Len(chunk))

\* no value is <= (Rising) or >= (Falling) the one before it
Rising(xs) == \A i \in 2..Len(xs) : ~(xs[i] <= xs[i - 1])

Falling(xs) == \A i \in 2..Len(xs) : ~(xs[i] >= xs[i - 1])

\* variant: the chunks are cut from the latest bars, leaving out the oldest
hasHigherLowsLatest(prices, count) ==
  IF Len(prices) < count * 5 THEN FALSE
  ELSE Rising([i \in 1..count |->
                 ChunkLow(Chunk(Slice(prices, (Len(prices) % count) + 1, Len(prices)),
                                i - 1, Len(prices) \div count))])

hasHigherLows(prices, count) ==
  IF Len(prices) < count * 5 THEN FALSE
  ELSE Rising([i \in 1..count |-> ChunkLow(Chunk(prices, i - 1, Len(prices) \div count))])

hasLowerHighs(prices, count) ==
  IF Len(prices) < count * 5 THEN FALSE
  ELSE Falling([i \in 1..count |-> ChunkHigh(Chunk(prices, i - 1, Len(prices) \div count))])

\* x || 50 for a number | null
OrFifty(x) == IF Truthy(x) THEN Val(x) ELSE Fx(50)

\* the locals detectWyckoffPhase computes before its rule chain
SignalValues(sortedPrices, currentPrice, indicators, support, resistance) ==
  [currentPrice |-> currentPrice,
   indicators |-> indicators,
   support |-> support,
   resistance |-> resistance,
   trend |-> identifyTrend(currentPrice, indicators.ma20, indicators.ma50, indicators.ma200),
   volumePattern |-> analyzeVolume(sortedPrices, 20),
   isConsolidating |-> detectConsolidation(sortedPrices, 20),
   higherLows |-> hasHigherLows(sortedPrices, 3),
   lowerHighs |-> hasLowerHighs(sortedPrices, 3),
   \* (currentPrice - support) / support < 0.05; NaN and Infinity are not
   priceNearSupport |-> support # 0 /\ (currentPrice - support) * 100 < 5 * support,
   \* (resistance - currentPrice) / currentPrice < 0.05
   priceNearResistance |-> currentPrice # 0
                           /\ (resistance - currentPrice) * 100 < 5 * currentPrice,
   rsiOversold |-> OrFifty(indicators.rsi14) < Fx(30),
   rsiOverbought |-> OrFifty(indicators.rsi14) > Fx(70),
   mfiOversold |-> OrFifty(indicators.mfi14) < Fx(30),
   mfiOverbought |-> OrFifty(indicators.mfi14) > Fx(70),
   macdBullish |-> indicators.macdHistogram # Null /\ Val(indicators.macdHistogram) > 0,
   macdBearish |-> indicators.macdHistogram # Null /\ Val(indicators.macdHistogram) < 0]

\* const { support, resistance } = findKeyLevels(sortedPrices)
SignalsWithLevels(sortedPrices, indicators, levels) ==
  SignalValues(sortedPrices, sortedPrices[Len(sortedPrices)].close, indicators,
               levels.support, levels.resistance)

WyckoffSignals(sortedPrices) ==
  SignalsWithLevels(sortedPrices, calculateIndicators(sortedPrices), findKeyLevels(sortedPrices))

Bonus(cond, points) == IF cond THEN points ELSE 0

Said(cond, text) == IF cond THEN <<text>> ELSE <<>>

AccumulationRule(s) ==
  [phase |-> "accumulation",
   subPhase |-> IF s.higherLows THEN "C"
                ELSE IF s.volumePattern = "decreasing" THEN "B" ELSE "A",
   strength |-> (IF s.higherLows THEN 30
                 ELSE IF s.volumePattern = "decreasing" THEN 20 ELSE 10)
                + Bonus(s.rsiOversold, 15) + Bonus(s.mfiOversold, 15)
                + Bonus(s.macdBullish, 10),
   reasoning |-> <<"Price consolidating near support levels. ">>
                 \o (IF s.higherLows THEN <<"Higher lows forming. ">>
                     ELSE IF s.volumePattern = "decreasing"
                          THEN <<"Volume decreasing during consolidation. ">>
                          ELSE <<"Initial accumulation phase. ">>)
                 \o Said(s.rsiOversold, "RSI oversold. ")
                 \o Said(s.mfiOversold, "MFI shows accumulation. ")
                 \o Said(s.macdBullish, "MACD turning bullish. ")]

MarkupRule(s) ==
  LET strong == Truthy(s.indicators.ma20) /\ Truthy(s.indicators.ma50)
                /\ Val(s.indicators.ma20) > Val(s.indicators.ma50)
  IN  [phase |-> "markup",
       subPhase |-> IF strong THEN "D" ELSE "C",
       strength |-> (IF strong THEN 25 ELSE 15)
                    + Bonus(s.volumePattern = "increasing", 20)
                    + Bonus(s.macdBullish, 15) + Bonus(~s.rsiOverbought, 10),
       reasoning |-> <<"Price in uptrend above moving averages. ">>
                     \o Said(strong, "MA20 above MA50. ")
                     \o Said(s.volumePattern = "increasing", "Volume increasing on up moves. ")
                     \o Said(s.macdBullish, "MACD bullish. ")
                     \o Said(~s.rsiOverbought, "RSI not yet overbought, room to run. ")]

\* variant: the distribution branch adds the bonuses of the accumulation branch
DistributionRuleOversold(s) ==
  [phase |-> "distribution",
   subPhase |-> IF s.lowerHighs THEN "C"
                ELSE IF s.volumePattern = "decreasing" THEN "B" ELSE "A",
   strength |-> (IF s.lowerHighs THEN 30
                 ELSE IF s.volumePattern = "decreasing" THEN 20 ELSE 10)
                + Bonus(s.rsiOversold, 15) + Bonus(s.mfiOversold, 15)
                + Bonus(s.macdBullish, 10),
   reasoning |-> <<"Price consolidating near resistance levels. ">>]

DistributionRule(s) ==
  [phase |-> "distribution",
   subPhase |-> IF s.lowerHighs THEN "C"
                ELSE IF s.volumePattern = "decreasing" THEN "B" ELSE "A",
   strength |-> (IF s.lowerHighs THEN 30
                 ELSE IF s.volumePattern = "decreasing" THEN 20 ELSE 10)
                + Bonus(s.rsiOverbought, 15) + Bonus(s.mfiOverbought, 15)
                + Bonus(s.macdBearish, 10),
   reasoning |-> <<"Price consolidating near resistance levels. ">>
                 \o (IF s.lowerHighs THEN <<"Lower highs forming. ">>
                     ELSE IF s.volumePattern = "decreasing"
                          THEN <<"Volume decreasing during consolidation. ">>
                          ELSE <<"Initial distribution phase. ">>)
                 \o Said(s.rsiOverbought, "RSI overbought. ")
                 \o Said(s.mfiOverbought, "MFI shows distribution. ")
                 \o Said(s.macdBearish, "MACD turning bearish. ")]

\* variant: the markdown branch keeps the RSI test of the markup branch
MarkdownRuleOverbought(s) ==
  LET strong == Truthy(s.indicators.ma20) /\ Truthy(s.indicators.ma50)
                /\ Val(s.indicators.ma20) < Val(s.indicators.ma50)
  IN  [phase |-> "markdown",
       subPhase |-> IF strong THEN "D" ELSE "C",
       strength |-> (IF strong THEN 25 ELSE 15)
                    + Bonus(s.volumePattern = "increasing", 20)
                    + Bonus(s.macdBearish, 15) + Bonus(~s.rsiOverbought, 10),
       reasoning |-> <<"Price in downtrend below moving averages. ">>]

MarkdownRule(s) ==
  LET strong == Truthy(s.indicators.ma20) /\ Truthy(s.indicators.ma50)
                /\ Val(s.indicators.ma20) < Val(s.indicators.ma50)
  IN  [phase |-> "markdown",
       subPhase |-> IF strong THEN "D" ELSE "C",
       strength |-> (IF strong THEN 25 ELSE 15)
                    + Bonus(s.volumePattern = "increasing", 20)
                    + Bonus(s.macdBearish, 15) + Bonus(~s.rsiOversold, 10),
       reasoning |-> <<"Price in downtrend below moving averages. ">>
                     \o Said(strong, "MA20 below MA50. ")
                     \o Said(s.volumePattern = "increasing", "Volume increasing on down moves. ")
                     \o Said(s.macdBearish, "MACD bearish. ")
                     \o Said(~s.rsiOversold, "RSI not yet oversold, more downside possible. ")]

\* variant: the final else branch assigns the phase but no sub-phase
TransitionRuleUnset(s) ==
  [phase |-> "accumulation", subPhase |-> "undefined", strength |-> 25,
   reasoning |-> <<"Market in transition, monitoring for clearer signals. ">>]

\* the final else branch: default to accumulation if unclear
TransitionRule(s) ==
  [phase |-> "accumulation", subPhase |-> "A", strength |-> 25,
   reasoning |-> <<"Market in transition, monitoring for clearer signals. ">>]

\* variant: the trend rules are tried first and ignore consolidation
PhaseRulesTrendFirst(s) ==
  IF s.trend = "bullish"
  THEN MarkupRule(s)
  ELSE IF s.trend = "bearish"
  THEN MarkdownRule(s)
  ELSE IF s.isConsolidating /\ (s.priceNearSupport \/ s.rsiOversold \/ s.mfiOversold)
  THEN AccumulationRule(s)
  ELSE IF s.isConsolidating /\ (s.priceNearResistance \/ s.rsiOverbought \/ s.mfiOverbought)
  THEN DistributionRule(s)
  ELSE TransitionRule(s)

\* the if / else-if chain of detectWyckoffPhase: the first matching rule wins
PhaseRules(s) ==
  IF s.isConsolidating /\ (s.priceNearSupport \/ s.rsiOversold \/ s.mfiOversold)
  THEN AccumulationRule(s)
  ELSE IF s.trend = "bullish" /\ ~s.isConsolidating
  THEN MarkupRule(s)
  ELSE IF s.isConsolidating /\ (s.priceNearResistance \/ s.rsiOverbought \/ s.mfiOverbought)
  THEN DistributionRule(s)
  ELSE IF s.trend = "bearish" /\ ~s.isConsolidating
  THEN MarkdownRule(s)
  ELSE TransitionRule(s)

\* the early return for fewer than 50 bars
InsufficientData(prices, currentPrice) ==
  [phase |-> "accumulation",
   subPhase |-> "A",
   strength |-> 0,
   support |-> FxMul(currentPrice, 95, 100),
   resistance |-> FxMul(currentPrice, 105, 100),
   indicators |-> calculateIndicators(prices),
   reasoning |-> <<"Insufficient data for analysis">>]

\* the final return: strength is clamped to 100
WyckoffResult(s, rule) ==
  [phase |-> rule.phase,
   subPhase |-> rule.subPhase,
   strength |-> MinOf(100, rule.strength),
   support |-> s.support,
   resistance |-> s.resistance,
   indicators |-> s.indicators,
   reasoning |-> rule.reasoning]

Classify(s) == WyckoffResult(s, PhaseRules(s))

detectWyckoffPhase(prices) ==
  IF Len(prices) < 50
  THEN InsufficientData(prices, LastCloseOrZero(prices))
  ELSE Classify(WyckoffSignals(SortByDate(prices)))

\* ------------------------------------------------------------------------
\* targets.ts
\* ------------------------------------------------------------------------
\* the switch on phase: targetPrice before rounding
TargetBeforeRounding(currentPrice, phase, support, resistance) ==
  CASE phase = "accumulation" -> resistance + FxMul(resistance - support, 5, 10)
    [] phase = "markup" -> FxMul(currentPrice, 118, 100)
    [] phase = "distribution" -> support - FxMul(resistance - support, 5, 10)
    [] phase = "markdown" -> FxMul(currentPrice, 82, 100)
    [] OTHER -> FxMul(currentPrice, 110, 100)

\* variant: the markup stop takes the lower of its two candidates
CutLossLowest(currentPrice, phase, support, resistance, ma20) ==
  CASE phase = "accumulation" -> FxMul(support, 97, 100)
    [] phase = "markup" ->
         MinOf(IF Truthy(ma20) THEN FxMul(Val(ma20), 98, 100) ELSE FxMul(currentPrice, 92, 100),
               FxMul(currentPrice, 92, 100))
    [] phase = "distribution" -> FxMul(resistance, 103, 100)
    [] phase = "markdown" ->
         MinOf(IF Truthy(ma20) THEN FxMul(Val(ma20), 102, 100) ELSE FxMul(currentPrice, 108, 100),
               FxMul(currentPrice, 108, 100))
    [] OTHER -> FxMul(currentPrice, 95, 100)

\* the switch on phase: cutLossPrice before rounding; `ma20 ? a : b` takes b
\* for null, undefined and 0
CutLossBeforeRounding(currentPrice, phase, support, resistance, ma20) ==
  CASE phase = "accumulation" -> FxMul(support, 97, 100)
    [] phase = "markup" ->
         MaxOf(IF Truthy(ma20) THEN FxMul(Val(ma20), 98, 100) ELSE FxMul(currentPrice, 92, 100),
               FxMul(currentPrice, 92, 100))
    [] phase = "distribution" -> FxMul(resistance, 103, 100)
    [] phase = "markdown" ->
         MinOf(IF Truthy(ma20) THEN FxMul(Val(ma20), 102, 100) ELSE FxMul(currentPrice, 108, 100),
               FxMul(currentPrice, 108, 100))
    [] OTHER -> FxMul(currentPrice, 95, 100)

\* riskRewardRatio = absLoss > 0 ? absGain / absLoss : 0
RiskReward(absGain, absLoss) == IF absLoss > 0 THEN FxDiv(absGain, absLoss) ELSE 0

\* the returned record: every field rounded to two decimals
TargetCalculation(targetPrice, cutLossPrice, potentialGainPercent, potentialLossPercent) ==
  [targetPrice |-> Round2(targetPrice),
   cutLossPrice |-> Round2(cutLossPrice),
   riskRewardRatio |-> Round2(RiskReward(Abs(potentialGainPercent), Abs(potentialLossPercent))),
   potentialGainPercent |-> Round2(potentialGainPercent),
   potentialLossPercent |-> Round2(potentialLossPercent)]

\* potentialGainPercent and potentialLossPercent (currentPrice > 0)
TargetMetrics(currentPrice, targetPrice, cutLossPrice) ==
  TargetCalculation(targetPrice, cutLossPrice,
                    FxDiv((targetPrice - currentPrice) * 100, currentPrice),
                    FxDiv((currentPrice - cutLossPrice) * 100, currentPrice))

calculateTargetAndCutLoss(currentPrice, phase, support, resistance, ma20, ma50) ==
  TargetMetrics(currentPrice,
                TargetBeforeRounding(currentPrice, phase, support, resistance),
                CutLossBeforeRounding(currentPrice, phase, support, resistance, ma20))

\* ------------------------------------------------------------------------
\* recommendation.ts
\* ------------------------------------------------------------------------
\* toFixed(0) and toFixed(1) of a fixed-point number: the count of units and
\* of tenths that is printed
ToFixed0(x) == RDiv(x, Scale)

ToFixed1(x) == RDiv(x, Scale \div 10)

Factor(name, signal, description, weight) ==
  [name |-> name, signal |-> signal, description |-> description, weight |-> weight]

\* const weight = 30; weight * 0.7 and weight * 0.8 are the doubles 21 and 24
analyzePhase(phase, subPhase, strength) ==
  CASE phase = "accumulation" ->
         IF subPhase = "C" \/ subPhase = "D"
         THEN Factor("Wyckoff Phase", "bullish",
                     <<"Accumulation Phase ", subPhase,
                       " - Smart money buying, breakout potential">>, 30)
         ELSE Factor("Wyckoff Phase", "bullish",
                     <<"Accumulation Phase - Building base for potential uptrend">>,
                     (30 * 7) \div 10)
    [] phase = "markup" ->
         Factor("Wyckoff Phase", "bullish",
                <<"Markup Phase - Active uptrend, momentum in favor">>,
                IF strength > 60 THEN 30 ELSE (30 * 8) \div 10)
    [] phase = "distribution" ->
         IF subPhase = "C" \/ subPhase = "D"
         THEN Factor("Wyckoff Phase", "bearish",
                     <<"Distribution Phase ", subPhase,
                       " - Smart money selling, breakdown risk">>, 30)
         ELSE Factor("Wyckoff Phase", "bearish",
                     <<"Distribution Phase - Topping pattern, be cautious">>,
                     (30 * 7) \div 10)
    [] phase = "markdown" ->
         Factor("Wyckoff Phase", "bearish",
                <<"Markdown Phase - Active downtrend, avoid buying">>, 30)
    [] OTHER -> Factor("Wyckoff Phase", "neutral", <<"Phase unclear">>, 0)

\* percentAbove = (currentPrice - ma200) / ma200 * 100 is compared exactly
\* (ma200 > 0); the description prints it with one decimal
MA200Factor(currentPrice, ma200, percentAbove) ==
  IF (currentPrice - ma200) * 100 > 10 * ma200
  THEN Factor("MA200 Trend", "bullish",
              <<"Price ", ToFixed1(percentAbove), "% above MA200 - Strong uptrend">>, 20)
  ELSE IF (currentPrice - ma200) * 100 > 0
  THEN Factor("MA200 Trend", "bullish",
              <<"Price ", ToFixed1(percentAbove), "% above MA200 - Uptrend intact">>, 15)
  ELSE IF (currentPrice - ma200) * 100 > (0 - 10) * ma200
  THEN Factor("MA200 Trend", "bearish",
              <<"Price ", ToFixed1(Abs(percentAbove)), "% below MA200 - Downtrend">>, 15)
  ELSE Factor("MA200 Trend", "bearish",
              <<"Price ", ToFixed1(Abs(percentAbove)), "% below MA200 - Strong downtrend">>, 20)

analyzeMA200(currentPrice, ma200) ==
  MA200Factor(currentPrice, ma200, FxDiv((currentPrice - ma200) * 100, ma200))

analyzeRSI(rsi) ==
  IF rsi < Fx(30)
  THEN Factor("RSI Momentum", "bullish",
              <<"RSI ", ToFixed0(rsi), " - Oversold, potential bounce">>, 15)
  ELSE IF rsi < Fx(45)
  THEN Factor("RSI Momentum", "neutral", <<"RSI ", ToFixed0(rsi), " - Weak momentum">>, 5)
  ELSE IF rsi < Fx(55)
  THEN Factor("RSI Momentum", "neutral", <<"RSI ", ToFixed0(rsi), " - Neutral momentum">>, 0)
  ELSE IF rsi < Fx(70)
  THEN Factor("RSI Momentum", "bullish", <<"RSI ", ToFixed0(rsi), " - Strong momentum">>, 10)
  ELSE Factor("RSI Momentum", "bearish",
              <<"RSI ", ToFixed0(rsi), " - Overbought, pullback risk">>, 15)

\* netFlow is a whole number of shares
analyzeForeignFlow(netFlow) ==
  IF netFlow > 1000000
  THEN Factor("Foreign Flow", "bullish",
              <<"Net foreign buying +", RDiv(netFlow, 100000), "M shares">>, 15)
  ELSE IF netFlow > 0
  THEN Factor("Foreign Flow", "bullish",
              <<"Slight foreign buying +", RDiv(netFlow, 1000), "K shares">>, 8)
  ELSE IF netFlow > 0 - 1000000
  THEN Factor("Foreign Flow", "bearish",
              <<"Slight foreign selling ", RDiv(netFlow, 1000), "K shares">>, 8)
  ELSE Factor("Foreign Flow", "bearish",
              <<"Net foreign selling ", RDiv(netFlow, 100000), "M shares">>, 15)

analyzeMarketBreadth(percentAboveMA200) ==
  IF percentAboveMA200 >= Fx(70)
  THEN Factor("Market Breadth", "bullish",
              <<percentAboveMA200, "% of stocks above MA200 - Strong market">>, 10)
  ELSE IF percentAboveMA200 >= Fx(50)
  THEN Factor("Market Breadth", "bullish",
              <<percentAboveMA200, "% of stocks above MA200 - Healthy market">>, 7)
  ELSE IF percentAboveMA200 >= Fx(30)
  THEN Factor("Market Breadth", "bearish",
              <<percentAboveMA200, "% of stocks above MA200 - Weak market">>, 7)
  ELSE Factor("Market Breadth", "bearish",
              <<percentAboveMA200, "% of stocks above MA200 - Bear market">>, 10)

\* variant: the ratio is taken of the magnitudes of gain and loss
GainLossRatioOfMagnitudes(potentialGain, potentialLoss) ==
  IF potentialLoss # 0 THEN FxDiv(Abs(potentialGain), Abs(potentialLoss)) ELSE 0

\* potentialLoss > 0 ? potentialGain / potentialLoss : 0
GainLossRatio(potentialGain, potentialLoss) ==
  IF potentialLoss > 0 THEN FxDiv(potentialGain, potentialLoss) ELSE 0

\* rr >= k is compared exactly as potentialGain >= k * potentialLoss, and
\* distanceToSupport < 5 as (currentPrice - support) * 100 < 5 * currentPrice
RiskRewardFactor(currentPrice, support, potentialGain, potentialLoss, rr) ==
  IF potentialLoss > 0 /\ potentialGain >= 3 * potentialLoss
     /\ currentPrice # 0 /\ (currentPrice - support) * 100 < 5 * currentPrice
  THEN Factor("Risk/Reward", "bullish",
              <<"R:R ", ToFixed1(rr), ":1, near support - Excellent entry">>, 10)
  ELSE IF potentialLoss > 0 /\ potentialGain >= 2 * potentialLoss
  THEN Factor("Risk/Reward", "bullish", <<"R:R ", ToFixed1(rr), ":1 - Favorable setup">>, 8)
  ELSE IF potentialLoss > 0 /\ potentialGain >= potentialLoss
  THEN Factor("Risk/Reward", "neutral",
              <<"R:R ", ToFixed1(rr), ":1 - Acceptable but not ideal">>, 3)
  ELSE Factor("Risk/Reward", "bearish", <<"R:R ", ToFixed1(rr), ":1 - Poor risk/reward">>, 10)

analyzeRiskReward(currentPrice, support, resistance, targetPrice, cutLossPrice) ==
  RiskRewardFactor(currentPrice, support, targetPrice - currentPrice,
                   currentPrice - cutLossPrice,
                   GainLossRatio(targetPrice - currentPrice, currentPrice - cutLossPrice))

\* variant: the thresholds are exclusive
scoreToActionExclusive(score) ==
  IF score > Fx(50) THEN "STRONG_BUY"
  ELSE IF score > Fx(20) THEN "BUY"
  ELSE IF score > 0 - Fx(20) THEN "HOLD"
  ELSE IF score > 0 - Fx(50) THEN "SELL"
  ELSE "STRONG_SELL"

scoreToAction(score) ==
  IF score >= Fx(50) THEN "STRONG_BUY"
  ELSE IF score >= Fx(20) THEN "BUY"
  ELSE IF score >= 0 - Fx(20) THEN "HOLD"
  ELSE IF score >= 0 - Fx(50) THEN "SELL"
  ELSE "STRONG_SELL"

\* variant: the buy range ignores the support level
calculateEntryRangeNoSupport(currentPrice, support, phase, action) ==
  IF action = "STRONG_BUY" \/ action = "BUY" \/ action = "HOLD"
  THEN [entryPriceMin |-> FxMul(currentPrice, 98, 100),
        entryPriceMax |-> FxMul(currentPrice, 102, 100)]
  ELSE [entryPriceMin |-> 0, entryPriceMax |-> 0]

\* buffer = currentPrice * 0.02
calculateEntryRange(currentPrice, support, phase, action) ==
  IF action = "STRONG_BUY" \/ action = "BUY"
  THEN [entryPriceMin |-> MaxOf(support, currentPrice - FxMul(currentPrice, 2, 100)),
        entryPriceMax |-> currentPrice + FxMul(currentPrice, 2, 100)]
  ELSE IF action = "HOLD"
  THEN [entryPriceMin |-> FxMul(currentPrice, 98, 100),
        entryPriceMax |-> FxMul(currentPrice, 102, 100)]
  ELSE [entryPriceMin |-> 0, entryPriceMax |-> 0]

\* factors.filter(f => f.signal === signal).length
CountSignal(factors, signal) ==
  Cardinality({i \in 1..Len(factors) : factors[i].signal = signal})

generateSummary(action, phase, factors, riskRewardRatio) ==
  CASE action = "STRONG_BUY" ->
         <<"Strong buying opportunity. ", CountSignal(factors, "bullish"),
           " bullish signals align with ", phase, " phase. Favorable R:R of ",
           ToFixed1(riskRewardRatio), ":1.">>
    [] action = "BUY" ->
         <<"Consider buying. ", CountSignal(factors, "bullish"),
           " bullish signals support entry. Wait for pullback to support for better entry.">>
    [] action = "HOLD" ->
         <<"Mixed signals. ", CountSignal(factors, "bullish"), " bullish vs ",
           CountSignal(factors, "bearish"),
           " bearish factors. Hold existing positions, avoid new entries.">>
    [] action = "SELL" ->
         <<"Consider reducing position. ", CountSignal(factors, "bearish"),
           " bearish signals suggest caution. Take partial profits.">>
    [] action = "STRONG_SELL" ->
         <<"Exit recommended. ", CountSignal(factors, "bearish"), " bearish signals with ",
           phase, " phase indicate high risk. Preserve capital.">>
    [] OTHER -> <<"Unable to generate recommendation.">>

\* variant: the sign of a bearish factor is dropped
SignedWeightUnsigned(factor) ==
  factor.weight * (IF factor.signal = "neutral" THEN 0 ELSE 1)

\* variant: a neutral factor is added to the score like a bullish one
SignedWeightNeutralCounts(factor) ==
  factor.weight * (IF factor.signal = "bearish" THEN 0 - 1 ELSE 1)

\* factor.weight * (signal === 'bullish' ? 1 : signal === 'bearish' ? -1 : 0)
SignedWeight(factor) ==
  factor.weight * (IF factor.signal = "bullish" THEN 1
                   ELSE IF factor.signal = "bearish" THEN 0 - 1 ELSE 0)

\* the running factors, score and totalWeight before the first factor
NoFactors == [factors |-> <<>>, score |-> 0, totalWeight |-> 0]

\* variant: totalWeight counts the weight the factor returned
AddFactorOwnWeight(acc, nominalWeight, factor) ==
  [factors |-> Append(acc.factors, factor),
   score |-> acc.score + SignedWeight(factor),
   totalWeight |-> acc.totalWeight + factor.weight]

\* totalWeight += nominalWeight; factors.push(factor); score += signed weight
AddFactor(acc, nominalWeight, factor) ==
  [factors |-> Append(acc.factors, factor),
   score |-> acc.score + SignedWeight(factor),
   totalWeight |-> acc.totalWeight + nominalWeight]

\* the six factor blocks of generateRecommendation in evaluation order
WithPhase(input, acc) ==
  AddFactor(acc, 30, analyzePhase(input.phase, input.subPhase, input.strength))

WithMA200(input, acc) ==
  IF input.ma200 # Null
  THEN AddFactor(acc, 20, analyzeMA200(input.currentPrice, Val(input.ma200))) ELSE acc

WithRSI(input, acc) ==
  IF input.rsi14 # Null THEN AddFactor(acc, 15, analyzeRSI(Val(input.rsi14))) ELSE acc

WithForeignFlow(input, acc) ==
  IF input.foreignNetFlow # Null
  THEN AddFactor(acc, 15, analyzeForeignFlow(Val(input.foreignNetFlow))) ELSE acc

WithMarketBreadth(input, acc) ==
  IF input.marketBreadthPercent # Null
  THEN AddFactor(acc, 10, analyzeMarketBreadth(Val(input.marketBreadthPercent))) ELSE acc

WithRiskReward(input, acc) ==
  AddFactor(acc, 10, analyzeRiskReward(input.currentPrice, input.support, input.resistance,
                                       input.targetPrice, input.cutLossPrice))

\* factors, score and totalWeight after the six blocks
ScoredFactors(input) ==
  WithRiskReward(input,
    WithMarketBreadth(input,
      WithForeignFlow(input,
        WithRSI(input,
          WithMA200(input,
            WithPhase(input, NoFactors))))))

\* normalizedScore = totalWeight > 0 ? (score / totalWeight) * 100 : 0
NormalizedScore(acc) ==
  IF acc.totalWeight > 0 THEN RDiv(acc.score * Scale * 100, acc.totalWeight) ELSE 0

\* the returned record; confidence = Math.round(Math.min(100, |score| + 20))
StockRecommendation(input, factors, normalizedScore, action, entry, riskRewardRatio) ==
  [action |-> action,
   confidence |-> RDiv(MinOf(Fx(100), Abs(normalizedScore) + Fx(20)), Scale),
   entryPriceMin |-> entry.entryPriceMin,
   entryPriceMax |-> entry.entryPriceMax,
   targetPrice |-> input.targetPrice,
   stopLoss |-> input.cutLossPrice,
   riskRewardRatio |-> Round2(riskRewardRatio),
   factors |-> factors,
   summary |-> generateSummary(action, input.phase, factors, riskRewardRatio)]

Recommend(input, factors, normalizedScore, action) ==
  StockRecommendation(input, factors, normalizedScore, action,
                      calculateEntryRange(input.currentPrice, input.support, input.phase, action),
                      GainLossRatio(input.targetPrice - input.currentPrice,
                                    input.currentPrice - input.cutLossPrice))

Decide(input, factors, normalizedScore) ==
  Recommend(input, factors, normalizedScore, scoreToAction(normalizedScore))

Normalize(input, acc) == Decide(input, acc.factors, NormalizedScore(acc))

generateRecommendation(input) == Normalize(input, ScoredFactors(input))

\* ------------------------------------------------------------------------
\* The cron worker's own detectWyckoffPhase (workers/cron/index.ts) beside
\* the one of the application, on the same histories
\* ------------------------------------------------------------------------
\* closes.slice(-n).reduce((a, b) => a + b, 0) / n
CronMean(series, n) == RDiv(SumFrom(series, Len(series) - n + 1, Len(series)), n)

\* Math.min(100, Math.max(0, strength))
CronClamp(strength) == MinOf(Fx(100), MaxOf(0, strength))

\* the rule chain of the cron worker; pricePosition = (currentPrice - support)
\* / priceRange is compared with 0.3 and 0.7 without rounding, and a range of
\* 0 makes it NaN, which is neither below 0.3 nor above 0.7
CronRules(currentPrice, ma20, ma50, support, resistance) ==
  LET aboveMa20 == currentPrice > ma20
      aboveMa50 == currentPrice > ma50
      priceRange == resistance - support
      pricePosition == IF priceRange = 0 THEN 0
                       ELSE FxDiv(currentPrice - support, priceRange)
      nearLows == priceRange # 0 /\ 10 * (currentPrice - support) < 3 * priceRange
      nearHighs == priceRange # 0 /\ 10 * (currentPrice - support) > 7 * priceRange
  IN  IF ~aboveMa20 /\ ~aboveMa50 /\ nearLows
      THEN [phase |-> "accumulation", subPhase |-> "B",
            strength |-> CronClamp(Fx(40) + pricePosition * 30),
            support |-> support, resistance |-> resistance,
            reasoning |-> "Price consolidating near lows, below moving averages"]
      ELSE IF aboveMa20 /\ aboveMa50 /\ ma20 > ma50
      THEN [phase |-> "markup", subPhase |-> "D",
            strength |-> CronClamp(Fx(50) + pricePosition * 30),
            support |-> support, resistance |-> resistance,
            reasoning |-> "Price in uptrend, above moving averages"]
      ELSE IF aboveMa20 /\ aboveMa50 /\ nearHighs
      THEN [phase |-> "distribution", subPhase |-> "B",
            strength |-> CronClamp(Fx(40) + (Scale - pricePosition) * 30),
            support |-> support, resistance |-> resistance,
            reasoning |-> "Price consolidating near highs"]
      ELSE IF ~aboveMa20 /\ ~aboveMa50 /\ ma20 < ma50
      THEN [phase |-> "markdown", subPhase |-> "D",
            strength |-> CronClamp(Fx(50) + (Scale - pricePosition) * 30),
            support |-> support, resistance |-> resistance,
            reasoning |-> "Price in downtrend, below moving averages"]
      ELSE [phase |-> "accumulation", subPhase |-> "A", strength |-> Fx(30),
            support |-> support, resistance |-> resistance,
            reasoning |-> "Transitional phase"]

\* closes, the two averages and the extremes of the latest 30 bars, of the
\* array as it was handed in
CronAnalysis(prices, series) ==
  CronRules(series[Len(series)], CronMean(series, 20), CronMean(series, 50),
            MinFrom([i \in 1..30 |-> prices[Len(prices) - 30 + i].low], 1, 30),
            MaxFrom([i \in 1..30 |-> prices[Len(prices) - 30 + i].high], 1, 30))

CronDetectWyckoffPhase(prices) ==
  IF Len(prices) < 50
  THEN [phase |-> "accumulation", subPhase |-> "A", strength |-> 0,
        support |-> FxMul(LastCloseOrZero(prices), 95, 100),
        resistance |-> FxMul(LastCloseOrZero(prices), 105, 100),
        reasoning |-> "Insufficient data"]
  ELSE CronAnalysis(prices, [i \in 1..Len(prices) |-> prices[i].close])

\* ------------------------------------------------------------------------
\* State
\* ------------------------------------------------------------------------
VARIABLES
  prices,   \* the price history handed to detectWyckoffPhase
  wres,     \* <<>> or <<r>>: the WyckoffResult returned for prices
  closes,   \* the series of closes handed to the indicator functions
  pattern,  \* the shape of the series the closes are drawn from
  drawn,    \* the position in that series of the newest close
  periods,  \* the periods handed to the indicator functions
  ires,     \* <<>> or <<r>>: the indicators returned for closes
  tin,      \* <<>> or the arguments of calculateTargetAndCutLoss
  tres,     \* <<>> or <<r>>: the TargetCalculation returned for tin
  rin,      \* <<>> or the RecommendationInput
  rres,     \* <<>> or <<r>>: the StockRecommendation returned for rin
  rscore,   \* <<>> or <<l>>: score, totalWeight and normalizedScore of that call
  score,    \* a normalized score handed to scoreToAction
  action,   \* the action returned for score
  levels,   \* <<>> or <<r>>: the SupportResistance returned for prices
  trendIn,  \* <<>> or the arguments of identifyTrend
  trendOut, \* <<>> or <<t>>: the trend returned for trendIn
  calls,    \* the calls of engine functions made so far, oldest first
  today,    \* the calendar day new Date() gives
  wyckoffRows,  \* the rows of table wyckoff_analysis
  metricsRows,  \* the rows of table metrics_daily
  runs,     \* the analysis runs started so far and how far each has come
  completed, \* the runs that returned, in the order they returned
  hres,      \* <<>> or <<r>>: count and the answers of hasHigherLows / hasLowerHighs
  cres,      \* <<>> or <<r>>: the result of the cron worker's detectWyckoffPhase for prices
  jobMetrics,   \* whether the handler also writes table metrics_daily (the second copy does)
  jobPc,        \* where handleCron stands: fetch, prices, analysis, metrics or done
  jobTicker,    \* the position in tickersResult of the ticker being processed
  jobSaved,     \* how many of its fetched bars the price loop has written
  jobFetched,   \* per ticker, the number of bars its fetch returned, -1 before the fetch
  jobOutcome,   \* per ticker: pending, noData, failed or completed
  priceRows,    \* the rows of table prices_daily written by the run
  analysisRows  \* the tickers with a row in wyckoff_analysis written by the run

wvars == <<prices, wres>>

ivars == <<closes, pattern, drawn, periods, ires>>

tvars == <<tin, tres>>

rvars == <<rin, rres, rscore>>

svars == <<score, action>>

lvars == <<levels>>

dvars == <<trendIn, trendOut>>

cvars == <<calls>>

pvars == <<today, wyckoffRows, metricsRows, runs, completed>>

hvars == <<hres>>

kvars == <<cres>>

jvars == <<jobMetrics, jobPc, jobTicker, jobSaved, jobFetched, jobOutcome, priceRows,
           analysisRows>>

vars == <<prices, wres, closes, pattern, drawn, periods, ires, tin, tres, rin, rres, rscore,
          score, action, levels, trendIn, trendOut, calls, today, wyckoffRows, metricsRows,
          runs, completed, hres, cres, jobMetrics, jobPc, jobTicker, jobSaved, jobFetched,
          jobOutcome, priceRows, analysisRows>>

\* the parts of the engine a specification does not exercise stay idle
IdleWyckoff == prices = <<>> /\ wres = <<>>

IdleIndicators ==
  closes = <<>> /\ pattern = "flat" /\ drawn = 0 /\ periods = <<>> /\ ires = <<>>

IdleTargets == tin = <<>> /\ tres = <<>>

IdleRecommendation == rin = <<>> /\ rres = <<>> /\ rscore = <<>>

IdleScore == score = 0 /\ action = "HOLD"

IdleLevels == levels = <<>>

IdleTrend == trendIn = <<>> /\ trendOut = <<>>

IdleCalls == calls = <<>>

IdleStore ==
  /\ today = 1
  /\ wyckoffRows = {}
  /\ metricsRows = {}
  /\ runs = <<>>
  /\ completed = <<>>

IdleChunks == hres = <<>>

IdleCron == cres = <<>>

IdleJob ==
  /\ jobMetrics = FALSE /\ jobPc = "done" /\ jobTicker = 0 /\ jobSaved = 0
  /\ jobFetched = <<>> /\ jobOutcome = <<>>
  /\ priceRows = {} /\ analysisRows = {}

\* ------------------------------------------------------------------------
\* Price histories: a flat base followed by runs of RunLen daily bars, each
\* run drifting by a constant amount per bar
\* ------------------------------------------------------------------------
MaxBars == 55

RunLen == 10

StartPrice == Fx(100)

Drifts == {0 - 20000, 0 - 4000, 0, 4000, 20000}

Volumes == {2, 3}

\* every bar opens half a drift away from the previous close, so a change of
\* direction leaves a strict local high or low; bars older than the volume
\* lookbacks all trade the base volume
QuietBars == 35

Bar(date, open, close, volume) ==
  [date |-> date, open |-> open,
   high |-> MaxOf(open, close) + 2000, low |-> MinOf(open, close) - 2000,
   close |-> close, volume |-> volume]

Run(from, date0, drift, volume, n) ==
  [k \in 1..n |-> Bar(date0 + k, from + (k - 1) * drift + drift \div 2,
                      from + k * drift, volume)]

BaseSeries == {Run(StartPrice, 0, 0, 2, n) : n \in {0, 5, 9}}

LastClose(s) == IF Len(s) = 0 THEN StartPrice ELSE s[Len(s)].close

LastDate(s) == IF Len(s) = 0 THEN 0 ELSE s[Len(s)].date

Init ==
  /\ prices \in BaseSeries
  /\ wres = <<>>
  /\ IdleIndicators /\ IdleTargets /\ IdleRecommendation /\ IdleScore
  /\ IdleLevels /\ IdleTrend /\ IdleCalls /\ IdleStore /\ IdleChunks /\ IdleCron /\ IdleJob

\* the upstream source delivers RunLen more daily bars
AppendRun(drift, volume) ==
  /\ Len(prices) + RunLen <= MaxBars
  /\ volume = 2 \/ Len(prices) >= QuietBars
  /\ LastClose(prices) + RunLen * drift >= Fx(70)
  /\ LastClose(prices) + RunLen * drift <= Fx(130)
  /\ prices' = prices \o Run(LastClose(prices), LastDate(prices), drift, volume, RunLen)
  /\ wres' = <<>>
  /\ UNCHANGED <<ivars, tvars, rvars, svars, lvars, dvars, cvars, pvars, hvars, kvars, jvars>>

\* one analysis call: detectWyckoffPhase(historicalPrices)
Detect ==
  /\ wres = <<>>
  /\ wres' = <<detectWyckoffPhase(prices)>>
  /\ UNCHANGED <<prices, ivars, tvars, rvars, svars, lvars>>
  /\ UNCHANGED <<dvars, cvars, pvars, hvars, kvars, jvars>>

Next ==
  \/ \E drift \in Drifts, volume \in Volumes : AppendRun(drift, volume)
  \/ Detect

Spec == Init /\ [][Next]_vars

\* ------------------------------------------------------------------------
\* The indicator functions on a growing and shrinking series of closes
\* ------------------------------------------------------------------------
MaxCloses == 36

Patterns == {"flat", "rising", "surging", "falling", "zigzag"}

\* the k-th close of a series of the given shape
PatternClose(shape, k) ==
  CASE shape = "flat" -> StartPrice
    [] shape = "rising" -> StartPrice + k * 4000
    [] shape = "surging" -> StartPrice + k * k * 100
    [] shape = "falling" -> StartPrice - k * 4000
    [] OTHER -> StartPrice + (k \div 2) * 1000 + (k % 2) * 6000

\* the periods of calculateIndicators (MACD defaults 12 / 26 / 9) and shorter
\* ones with fast < slow
PeriodChoices ==
  {[n |-> 14, fast |-> 12, slow |-> 26, signal |-> 9],
   [n |-> 20, fast |-> 12, slow |-> 26, signal |-> 9],
   [n |-> 5, fast |-> 3, slow |-> 6, signal |-> 4],
   [n |-> 1, fast |-> 1, slow |-> 2, signal |-> 1]}

\* the three length-guarded indicators of a series of closes
Indicate(series, p) ==
  [sma |-> calculateSMA(series, p.n),
   rsi |-> calculateRSI(series, p.n),
   macd |-> calculateMACD(series, p.fast, p.slow, p.signal)]

InitInd ==
  /\ pattern \in Patterns
  /\ periods \in PeriodChoices
  /\ closes = <<>>
  /\ drawn = 0
  /\ ires = <<Indicate(closes, periods)>>
  /\ IdleWyckoff /\ IdleTargets /\ IdleRecommendation /\ IdleScore
  /\ IdleLevels /\ IdleTrend /\ IdleCalls /\ IdleStore /\ IdleChunks /\ IdleCron /\ IdleJob

\* a new bar arrives and the indicators are computed again
PushClose ==
  /\ drawn < MaxCloses
  /\ closes' = Append(closes, PatternClose(pattern, drawn + 1))
  /\ drawn' = drawn + 1
  /\ ires' = <<Indicate(closes', periods)>>
  /\ UNCHANGED <<pattern, periods>>
  /\ UNCHANGED <<wvars, tvars, rvars, svars, lvars, dvars, cvars, pvars, hvars, kvars, jvars>>

\* the oldest bar is removed and the indicators are computed again
DropOldest ==
  /\ Len(closes) > 0
  /\ closes' = Tail(closes)
  /\ ires' = <<Indicate(closes', periods)>>
  /\ UNCHANGED <<pattern, drawn, periods>>
  /\ UNCHANGED <<wvars, tvars, rvars, svars, lvars, dvars, cvars, pvars, hvars, kvars, jvars>>

\* the newest bar is removed and the indicators are computed again
DropNewest ==
  /\ Len(closes) > 0
  /\ closes' = SubSeq(closes, 1, Len(closes) - 1)
  /\ drawn' = drawn - 1
  /\ ires' = <<Indicate(closes', periods)>>
  /\ UNCHANGED <<pattern, periods>>
  /\ UNCHANGED <<wvars, tvars, rvars, svars, lvars, dvars, cvars, pvars, hvars, kvars, jvars>>

NextInd == PushClose \/ DropOldest \/ DropNewest

SpecInd == InitInd /\ [][NextInd]_vars

\* ------------------------------------------------------------------------
\* calculateTargetAndCutLoss on a grid of arguments
\* ------------------------------------------------------------------------
LevelSteps == 4

TargetPrices == {Fx(100), Fx(1000), Fx(33) + 3300}

\* prices within 2% steps of the current price, in whole cents
LevelsAround(currentPrice) ==
  {Round2(FxMul(currentPrice, 100 + 2 * k, 100)) : k \in (0 - LevelSteps)..LevelSteps}

Phases == {"accumulation", "markup", "distribution", "markdown"}

TargetInputs ==
  UNION {[currentPrice : {c}, phase : Phases,
          support : LevelsAround(c), resistance : LevelsAround(c),
          ma20 : {Null} \cup {Some(m) : m \in LevelsAround(c)},
          ma50 : {Null}] : c \in TargetPrices}

InitTargets ==
  /\ tin \in TargetInputs
  /\ tres = <<>>
  /\ IdleWyckoff /\ IdleIndicators /\ IdleRecommendation /\ IdleScore
  /\ IdleLevels /\ IdleTrend /\ IdleCalls /\ IdleStore /\ IdleChunks /\ IdleCron /\ IdleJob

\* one call of calculateTargetAndCutLoss
CalculateTargets ==
  /\ tin # <<>>
  /\ tres = <<>>
  /\ tres' = <<calculateTargetAndCutLoss(tin.currentPrice, tin.phase, tin.support,
                                         tin.resistance, tin.ma20, tin.ma50)>>
  /\ UNCHANGED <<tin, wvars, ivars, rvars, svars, lvars, dvars, cvars, pvars, hvars, kvars, jvars>>

NextTargets == CalculateTargets

SpecTargets == InitTargets /\ [][NextTargets]_vars

\* ------------------------------------------------------------------------
\* generateRecommendation on a grid of inputs
\* ------------------------------------------------------------------------
\* phase, sub-phase and strength of an analysis
PhaseCases ==
  {<<"accumulation", "A", 40>>, <<"accumulation", "C", 60>>,
   <<"markup", "D", 50>>, <<"markup", "D", 70>>,
   <<"distribution", "A", 40>>, <<"distribution", "C", 60>>,
   <<"markdown", "D", 40>>}

\* target and cut-loss price around a current price of 100
PricePlans ==
  {<<Fx(120), Fx(95)>>, <<Fx(112), Fx(95)>>, <<Fx(106), Fx(95)>>, <<Fx(102), Fx(95)>>,
   <<Fx(90), Fx(105)>>}

RecommendationInputs ==
  {[currentPrice |-> Fx(100), phase |-> pc[1], subPhase |-> pc[2], strength |-> pc[3],
    targetPrice |-> pp[1], cutLossPrice |-> pp[2],
    support |-> sup, resistance |-> Fx(110),
    ma200 |-> ma, rsi14 |-> rsi, foreignNetFlow |-> flow, marketBreadthPercent |-> breadth] :
     pc \in PhaseCases, pp \in PricePlans, sup \in {Fx(90), Fx(97), Fx(99)},
     ma \in {Null, Some(Fx(80)), Some(Fx(95)), Some(Fx(105)), Some(Fx(125))},
     rsi \in {Null, Some(Fx(20)), Some(Fx(40)), Some(Fx(50)), Some(Fx(60)), Some(Fx(80))},
     flow \in {Null, Some(2000000), Some(500000), Some(0 - 500000), Some(0 - 2000000)},
     breadth \in {Null, Some(Fx(80)), Some(Fx(60)), Some(Fx(40)), Some(Fx(20))}}

\* score, totalWeight and normalizedScore, the locals of generateRecommendation
ScoreLocals(acc) ==
  [score |-> acc.score, totalWeight |-> acc.totalWeight,
   normalizedScore |-> NormalizedScore(acc)]

InitRec ==
  /\ rin \in RecommendationInputs
  /\ rres = <<>>
  /\ rscore = <<>>
  /\ IdleWyckoff /\ IdleIndicators /\ IdleTargets /\ IdleScore
  /\ IdleLevels /\ IdleTrend /\ IdleCalls /\ IdleStore /\ IdleChunks /\ IdleCron /\ IdleJob

\* one call of generateRecommendation
Advise ==
  /\ rin # <<>>
  /\ rres = <<>>
  /\ rres' = <<generateRecommendation(rin)>>
  /\ rscore' = <<ScoreLocals(ScoredFactors(rin))>>
  /\ UNCHANGED <<rin, wvars, ivars, tvars, svars, lvars, dvars, cvars, pvars, hvars, kvars, jvars>>

NextRec == Advise

SpecRec == InitRec /\ [][NextRec]_vars

\* ------------------------------------------------------------------------
\* scoreToAction on a rising normalized score
\* ------------------------------------------------------------------------
ScoreStep == Scale \div 4

InitScore ==
  /\ score = 0 - Fx(100)
  /\ action = scoreToAction(score)
  /\ IdleWyckoff /\ IdleIndicators /\ IdleTargets /\ IdleRecommendation
  /\ IdleLevels /\ IdleTrend /\ IdleCalls /\ IdleStore /\ IdleChunks /\ IdleCron /\ IdleJob

\* the score rises by a quarter point and the action is determined again
RaiseScore ==
  /\ score + ScoreStep <= Fx(100)
  /\ score' = score + ScoreStep
  /\ action' = scoreToAction(score')
  /\ UNCHANGED <<wvars, ivars, tvars, rvars, lvars, dvars, cvars, pvars, hvars, kvars, jvars>>

NextScore == RaiseScore

SpecScore == InitScore /\ [][NextScore]_vars

\* ------------------------------------------------------------------------
\* Properties of detectWyckoffPhase
\* ------------------------------------------------------------------------
Analysed == wres # <<>>

Result == wres[1]

Signals == WyckoffSignals(SortByDate(prices))

\* C1: for a history of at least 50 bars the result carries one of the four
\* phases, one of the five sub-phases and a strength between 0 and 100
C1_PhaseTotality ==
  (Analysed /\ Len(prices) >= 50) =>
    /\ Result.phase \in {"accumulation", "markup", "distribution", "markdown"}
    /\ Result.subPhase \in {"A", "B", "C", "D", "E"}
    /\ Result.strength >= 0
    /\ Result.strength <= 100

\* a long history that fell through every rule to the final else branch
C1_Witness ==
  /\ Analysed
  /\ Len(prices) >= 50
  /\ Result.reasoning = <<"Market in transition, monitoring for clearer signals. ">>
  /\ Signals.trend # "neutral"

\* C2: a consolidating history is never markup or markdown whatever its
\* trend, and when both the accumulation and the distribution trigger hold
\* it is accumulation
C2_RuleOrder ==
  (Analysed /\ Len(prices) >= 50) =>
    LET s == Signals
        accumulationTrigger == s.priceNearSupport \/ s.rsiOversold \/ s.mfiOversold
        distributionTrigger == s.priceNearResistance \/ s.rsiOverbought \/ s.mfiOverbought
    IN  /\ s.isConsolidating => Result.phase \notin {"markup", "markdown"}
        /\ (s.isConsolidating /\ accumulationTrigger /\ distributionTrigger)
             => Result.phase = "accumulation"

\* a consolidating history in a bullish trend with both triggers present
C2_Witness ==
  /\ Analysed
  /\ Len(prices) >= 50
  /\ Signals.isConsolidating
  /\ Signals.trend = "bullish"
  /\ Signals.priceNearSupport \/ Signals.rsiOversold \/ Signals.mfiOversold
  /\ Signals.priceNearResistance \/ Signals.rsiOverbought \/ Signals.mfiOverbought
  /\ Result.phase = "accumulation"

\* the bar with the greatest date
LatestBar(s) == CHOOSE b \in {s[i] : i \in 1..Len(s)} : \A i \in 1..Len(s) : s[i].date <= b.date

\* C3: a history of fewer than 50 bars gives accumulation / A / 0 with the
\* "Insufficient data" reasoning and a 5% band around the latest close
\* (0 for the empty history)
C3_InsufficientData ==
  (Analysed /\ Len(prices) < 50) =>
    /\ Result.phase = "accumulation"
    /\ Result.subPhase = "A"
    /\ Result.strength = 0
    /\ \E i \in 1..Len(Result.reasoning) : Result.reasoning[i] = "Insufficient data for analysis"
    /\ IF Len(prices) = 0
       THEN Result.support = 0 /\ Result.resistance = 0
       ELSE /\ Result.support * 100 = LatestBar(prices).close * 95
            /\ Result.resistance * 100 = LatestBar(prices).close * 105

\* 49 bars, one short of the threshold, whose close moved
C3_Witness ==
  /\ Analysed
  /\ Len(prices) = 49
  /\ prices[1].close # prices[49].close

\* ------------------------------------------------------------------------
\* Properties of the indicator functions
\* ------------------------------------------------------------------------
Indicators == ires[1]

AllNullMACD(m) == IsNull(m.macdLine) /\ IsNull(m.signal) /\ IsNull(m.histogram)

NoNullMACD(m) == ~IsNull(m.macdLine) /\ ~IsNull(m.signal) /\ ~IsNull(m.histogram)

\* the indicators of the series are null exactly below their lookback
NullByLength ==
  /\ IsNull(Indicators.sma) <=> Len(closes) < periods.n
  /\ IsNull(Indicators.rsi) <=> Len(closes) < periods.n + 1
  /\ AllNullMACD(Indicators.macd) <=> Len(closes) < periods.slow + periods.signal
  /\ Len(closes) >= periods.slow + periods.signal => NoNullMACD(Indicators.macd)

\* a step that removes bars leaves every null indicator null
ShrinkKeepsNull ==
  Len(closes') < Len(closes) =>
    /\ IsNull(Indicators.sma) => IsNull(ires'[1].sma)
    /\ IsNull(Indicators.rsi) => IsNull(ires'[1].rsi)
    /\ AllNullMACD(Indicators.macd) => AllNullMACD(ires'[1].macd)

\* C4: SMA(n) is null exactly when len < n, RSI(n) exactly when len < n + 1,
\* and MACD returns three nulls exactly when len < slow + signal and three
\* numbers otherwise; removing bars never turns a null indicator non-null
C4_NullDegradation == [](NullByLength) /\ [][ShrinkKeepsNull]_vars

\* 35 bars were drawn with the default periods and the 5 oldest removed:
\* the 30 bars left give three nulls for MACD and still a number for SMA
C4_Witness ==
  /\ periods = [n |-> 20, fast |-> 12, slow |-> 26, signal |-> 9]
  /\ drawn = 35
  /\ Len(closes) = 30
  /\ AllNullMACD(Indicators.macd)
  /\ ~IsNull(Indicators.sma)

\* ------------------------------------------------------------------------
\* Properties of calculateTargetAndCutLoss
\* ------------------------------------------------------------------------
Calculated == tres # <<>>

Targets == tres[1]

\* a price given in hundredths of a unit of the fixed-point scale, rounded to
\* two decimals
RoundCents(x100) == RDiv(x100, Scale) * (Scale \div 100)

\* the reference target of each phase, times 100
ReferenceTarget100 ==
  CASE tin.phase = "accumulation" -> 100 * tin.resistance + 50 * (tin.resistance - tin.support)
    [] tin.phase = "markup" -> 118 * tin.currentPrice
    [] tin.phase = "distribution" -> 100 * tin.support - 50 * (tin.resistance - tin.support)
    [] tin.phase = "markdown" -> 82 * tin.currentPrice

\* the reference stop of each phase, times 100
ReferenceStop100 ==
  CASE tin.phase = "accumulation" -> 97 * tin.support
    [] tin.phase = "markup" ->
         IF tin.ma20 # Null
         THEN MaxOf(98 * Val(tin.ma20), 92 * tin.currentPrice) ELSE 92 * tin.currentPrice
    [] tin.phase = "distribution" -> 103 * tin.resistance
    [] tin.phase = "markdown" ->
         IF tin.ma20 # Null
         THEN MinOf(102 * Val(tin.ma20), 108 * tin.currentPrice) ELSE 108 * tin.currentPrice

\* C5: target and stop are the per-phase reference formulas, rounded to two
\* decimals; current 1000, markup, ma20 980 gives stop 960.4 and target 1180
C5_ReferenceFormulas ==
  Calculated =>
    /\ Targets.targetPrice = RoundCents(ReferenceTarget100)
    /\ Targets.cutLossPrice = RoundCents(ReferenceStop100)
    /\ (tin.currentPrice = Fx(1000) /\ tin.phase = "markup" /\ tin.ma20 = Some(Fx(980)))
         => (Targets.cutLossPrice = Fx(960) + 4000 /\ Targets.targetPrice = Fx(1180))

\* the scenario of the specification has been calculated
C5_Witness ==
  /\ Calculated
  /\ tin.currentPrice = Fx(1000)
  /\ tin.phase = "markup"
  /\ tin.ma20 = Some(Fx(980))
  /\ Targets.cutLossPrice = Fx(960) + 4000

\* C6: in accumulation and markup, with 0 < support < current < resistance,
\* the target lies above and the stop below the current price for every ma20
C6_LongPhaseSanity ==
  (/\ Calculated
   /\ tin.phase \in {"accumulation", "markup"}
   /\ 0 < tin.support
   /\ tin.support < tin.currentPrice
   /\ tin.currentPrice < tin.resistance)
    => /\ Targets.targetPrice > tin.currentPrice
       /\ Targets.cutLossPrice < tin.currentPrice

\* ------------------------------------------------------------------------
\* Properties of generateRecommendation
\* ------------------------------------------------------------------------
Advised == rres # <<>>

Recommendation == rres[1]

Locals == rscore[1]

\* the nominal weight of each factor
NominalWeight(name) ==
  CASE name = "Wyckoff Phase" -> 30
    [] name = "MA200 Trend" -> 20
    [] name = "RSI Momentum" -> 15
    [] name = "Foreign Flow" -> 15
    [] name = "Market Breadth" -> 10
    [] name = "Risk/Reward" -> 10

\* the factors that participate for the input, in evaluation order
Participating ==
  <<"Wyckoff Phase">>
  \o (IF rin.ma200 # Null THEN <<"MA200 Trend">> ELSE <<>>)
  \o (IF rin.rsi14 # Null THEN <<"RSI Momentum">> ELSE <<>>)
  \o (IF rin.foreignNetFlow # Null THEN <<"Foreign Flow">> ELSE <<>>)
  \o (IF rin.marketBreadthPercent # Null THEN <<"Market Breadth">> ELSE <<>>)
  \o <<"Risk/Reward">>

Direction(signal) == IF signal = "bullish" THEN 1 ELSE IF signal = "bearish" THEN 0 - 1 ELSE 0

\* the sum of the signed weights the factors returned
SignedSum ==
  SumFrom([i \in 1..Len(Recommendation.factors) |->
             Direction(Recommendation.factors[i].signal) * Recommendation.factors[i].weight],
          1, Len(Recommendation.factors))

\* the sum of the nominal weights of the participating factors
ParticipatingWeight ==
  SumFrom([i \in 1..Len(Participating) |-> NominalWeight(Participating[i])],
          1, Len(Participating))

\* x is the quotient num / den to the nearest unit of the scale (den > 0)
IsQuotient(x, num, den) == 2 * Abs(x * den - num) <= den

\* C7: the normalized score is the sum of the signed contributions over the
\* sum of the nominal weights of the participating factors, times 100; phase
\* and risk/reward always participate, the other four exactly when their
\* input is non-null; the score lies in [-100, 100]
C7_NormalizedScore ==
  Advised =>
    /\ [i \in 1..Len(Recommendation.factors) |-> Recommendation.factors[i].name] = Participating
    /\ Locals.score = SignedSum
    /\ Locals.totalWeight = ParticipatingWeight
    /\ IsQuotient(Locals.normalizedScore, SignedSum * 100 * Scale, ParticipatingWeight)
    /\ Locals.normalizedScore >= 0 - Fx(100)
    /\ Locals.normalizedScore <= Fx(100)

\* MA200 and RSI are missing, flow and breadth are present, and the four
\* remaining factors are all fully bullish: 65 of 65
C7_Witness ==
  /\ Advised
  /\ rin.ma200 = Null
  /\ rin.rsi14 = Null
  /\ rin.foreignNetFlow # Null
  /\ rin.marketBreadthPercent # Null
  /\ Locals.totalWeight = 65
  /\ Locals.normalizedScore = Fx(100)

\* C8 as stated: every factor contributes plus or minus its nominal weight,
\* or 0 when neutral
C8_FixedWeights ==
  Advised =>
    Locals.score =
      SumFrom([i \in 1..Len(Recommendation.factors) |->
                 Direction(Recommendation.factors[i].signal)
                 * NominalWeight(Recommendation.factors[i].name)],
              1, Len(Recommendation.factors))

\* the weights each evaluator can return
ReturnedWeights(name) ==
  CASE name = "Wyckoff Phase" -> {30, 24, 21}
    [] name = "MA200 Trend" -> {20, 15}
    [] name = "RSI Momentum" -> {15, 10, 5, 0}
    [] name = "Foreign Flow" -> {15, 8}
    [] name = "Market Breadth" -> {10, 7}
    [] name = "Risk/Reward" -> {10, 8, 3}

\* C8 amended: every factor contributes plus or minus the weight its
\* evaluator returned, or 0 when neutral; that weight is one of the graded
\* weights of the factor and never exceeds its nominal weight
C8_ReturnedWeights ==
  Advised =>
    /\ Locals.score = SignedSum
    /\ \A i \in 1..Len(Recommendation.factors) :
         /\ Recommendation.factors[i].weight \in ReturnedWeights(Recommendation.factors[i].name)
         /\ Recommendation.factors[i].weight <= NominalWeight(Recommendation.factors[i].name)

\* an early accumulation (weight 21 of 30) with a weak RSI (neutral of
\* weight 5, contributing 0)
C8_Witness ==
  /\ Advised
  /\ rin.phase = "accumulation"
  /\ rin.subPhase = "A"
  /\ rin.rsi14 = Some(Fx(40))
  /\ Recommendation.factors[1].weight = 21
  /\ \E i \in 1..Len(Recommendation.factors) :
       /\ Recommendation.factors[i].signal = "neutral"
       /\ Recommendation.factors[i].weight = 5

\* the entry range of each action, times 100
ReferenceEntry100 ==
  IF Recommendation.action \in {"BUY", "STRONG_BUY"}
  THEN <<MaxOf(100 * rin.support, 98 * rin.currentPrice), 102 * rin.currentPrice>>
  ELSE IF Recommendation.action = "HOLD"
  THEN <<98 * rin.currentPrice, 102 * rin.currentPrice>>
  ELSE <<0, 0>>

\* C10: the entry range is [max(support, 0.98 x current), 1.02 x current] for
\* BUY and STRONG_BUY, [0.98 x current, 1.02 x current] for HOLD and [0, 0]
\* for SELL and STRONG_SELL
C10_EntryRange ==
  Advised =>
    /\ Recommendation.action \in {"STRONG_BUY", "BUY", "HOLD", "SELL", "STRONG_SELL"}
    /\ 100 * Recommendation.entryPriceMin = ReferenceEntry100[1]
    /\ 100 * Recommendation.entryPriceMax = ReferenceEntry100[2]

\* a buy whose support lies above 0.98 x current and bounds the range
C10_Witness ==
  /\ Advised
  /\ Recommendation.action = "BUY"
  /\ rin.support = Fx(99)
  /\ Recommendation.entryPriceMin = Fx(99)
  /\ Recommendation.entryPriceMax = Fx(102)

\* ------------------------------------------------------------------------
\* Properties of scoreToAction
\* ------------------------------------------------------------------------
\* the actions from the most bearish to the most bullish
ActionRank(a) ==
  CASE a = "STRONG_SELL" -> 1
    [] a = "SELL" -> 2
    [] a = "HOLD" -> 3
    [] a = "BUY" -> 4
    [] a = "STRONG_BUY" -> 5

\* the inclusive lower thresholds of the five actions
ActionByThreshold ==
  /\ action \in {"STRONG_BUY", "BUY", "HOLD", "SELL", "STRONG_SELL"}
  /\ action = "STRONG_BUY" <=> score >= Fx(50)
  /\ action = "BUY" <=> (Fx(20) <= score /\ score < Fx(50))
  /\ action = "HOLD" <=> (0 - Fx(20) <= score /\ score < Fx(20))
  /\ action = "SELL" <=> (0 - Fx(50) <= score /\ score < 0 - Fx(20))
  /\ action = "STRONG_SELL" <=> score < 0 - Fx(50)

\* a higher score never gives a less bullish action
ActionMonotone == score' >= score => ActionRank(action') >= ActionRank(action)

\* C9: the action is a total, monotone function of the score: >= 50
\* STRONG_BUY, >= 20 BUY, >= -20 HOLD, >= -50 SELL, below -50 STRONG_SELL
C9_ScoreToAction == [](ActionByThreshold) /\ [][ActionMonotone]_vars

\* the score has risen to exactly 50, the lowest STRONG_BUY
C9_Witness ==
  /\ score = Fx(50)
  /\ action = "STRONG_BUY"

\* ------------------------------------------------------------------------
\* findKeyLevels and detectWyckoffPhase on histories with turning points,
\* delivered in date order or out of it
\* ------------------------------------------------------------------------
MaxLevelBars == 24

LevelRun == 5

LongBase == 40

LongRuns == 3

LevelBases == {Run(StartPrice, 0, 0, 2, n) : n \in {0, 5, 9, LongBase}}

\* strictly increasing by date
Ordered(s) == \A i \in 1..(Len(s) - 1) : s[i].date < s[i + 1].date

Reversed(s) == [i \in 1..Len(s) |-> s[Len(s) + 1 - i]]

\* the newest bar is delivered before the one that precedes it
LastTwoSwapped(s) ==
  [i \in 1..Len(s) |-> IF i = Len(s) THEN s[Len(s) - 1]
                        ELSE IF i = Len(s) - 1 THEN s[Len(s)] ELSE s[i]]

InitLevels ==
  /\ prices \in LevelBases
  /\ wres = <<>>
  /\ levels = <<>>
  /\ IdleIndicators /\ IdleTargets /\ IdleRecommendation /\ IdleScore
  /\ IdleTrend /\ IdleCalls /\ IdleStore /\ IdleChunks /\ IdleCron /\ IdleJob

\* the upstream source delivers LevelRun more daily bars
ExtendBars(drift) ==
  /\ Ordered(prices)
  /\ \/ Len(prices) + LevelRun <= MaxLevelBars
     \/ Len(prices) >= LongBase /\ Len(prices) < LongBase + LongRuns * LevelRun
  /\ LastClose(prices) + LevelRun * drift >= Fx(70)
  /\ LastClose(prices) + LevelRun * drift <= Fx(130)
  /\ prices' = prices \o Run(LastClose(prices), LastDate(prices), drift, 2, LevelRun)
  /\ wres' = <<>>
  /\ levels' = <<>>
  /\ UNCHANGED <<ivars, tvars, rvars, svars, dvars, cvars, pvars, hvars, kvars, jvars>>

\* the same bars arrive newest first
DeliverReversed ==
  /\ Ordered(prices)
  /\ Len(prices) >= 2
  /\ prices' = Reversed(prices)
  /\ wres' = <<>>
  /\ levels' = <<>>
  /\ UNCHANGED <<ivars, tvars, rvars, svars, dvars, cvars, pvars, hvars, kvars, jvars>>

\* the same bars arrive with the last two exchanged
DeliverSwapped ==
  /\ Ordered(prices)
  /\ Len(prices) >= 2
  /\ prices' = LastTwoSwapped(prices)
  /\ wres' = <<>>
  /\ levels' = <<>>
  /\ UNCHANGED <<ivars, tvars, rvars, svars, dvars, cvars, pvars, hvars, kvars, jvars>>

\* one call: findKeyLevels(prices)
FindLevels ==
  /\ levels = <<>>
  /\ levels' = <<findKeyLevels(prices)>>
  /\ UNCHANGED <<wvars, ivars, tvars, rvars, svars, dvars, cvars, pvars, hvars, kvars, jvars>>

NextLevels ==
  \/ \E drift \in Drifts : ExtendBars(drift)
  \/ DeliverReversed
  \/ DeliverSwapped
  \/ FindLevels
  \/ Detect

SpecLevels == InitLevels /\ [][NextLevels]_vars

\* ------------------------------------------------------------------------
\* Properties of findKeyLevels
\* ------------------------------------------------------------------------
Located == levels # <<>>

Levels == levels[1]

ByDate == SortByDate(prices)

\* positions (1-based) of the bars whose high strictly exceeds, and whose low
\* is strictly below, those of the two bars before and the two bars after
PivotHighsAt(s) ==
  {i \in 3..(Len(s) - 2) : \A d \in {0 - 2, 0 - 1, 1, 2} : s[i].high > s[i + d].high}

PivotLowsAt(s) ==
  {i \in 3..(Len(s) - 2) : \A d \in {0 - 2, 0 - 1, 1, 2} : s[i].low < s[i + d].low}

PivotPrices(s) == {s[i].high : i \in PivotHighsAt(s)} \cup {s[i].low : i \in PivotLowsAt(s)}

PivotsBelow(s, close) == {p \in PivotPrices(s) : p < close}

PivotsAbove(s, close) == {p \in PivotPrices(s) : p > close}

\* C11: with at least 20 bars the pivots are exactly the strict five-bar highs
\* and lows of the history in date order, support is the greatest pivot below
\* the latest close and resistance the least pivot above it, each replaced by
\* 0.95 x close / 1.05 x close when there is no such pivot; with fewer than 20
\* bars the result is 0.95 x close, 1.05 x close and no pivots
C11_KeyLevels ==
  Located =>
    IF Len(prices) >= 20
    THEN LET close == LatestBar(prices).close
         IN  /\ {Levels.pivotPoints[k] : k \in 1..Len(Levels.pivotPoints)}
                  = PivotPrices(ByDate)
             /\ Len(Levels.pivotPoints)
                  = Cardinality(PivotHighsAt(ByDate)) + Cardinality(PivotLowsAt(ByDate))
             /\ IF PivotsBelow(ByDate, close) = {}
                THEN Levels.support * 100 = close * 95
                ELSE /\ Levels.support \in PivotsBelow(ByDate, close)
                     /\ \A p \in PivotsBelow(ByDate, close) : p <= Levels.support
             /\ IF PivotsAbove(ByDate, close) = {}
                THEN Levels.resistance * 100 = close * 105
                ELSE /\ Levels.resistance \in PivotsAbove(ByDate, close)
                     /\ \A p \in PivotsAbove(ByDate, close) : Levels.resistance <= p
    ELSE /\ Levels.pivotPoints = <<>>
         /\ IF Len(prices) = 0
            THEN Levels.support = 0 /\ Levels.resistance = 0
            ELSE /\ Levels.support * 100 = prices[Len(prices)].close * 95
                 /\ Levels.resistance * 100 = prices[Len(prices)].close * 105

\* a history delivered newest first with a pivot high and a pivot low, one of
\* them below and one above the latest close
C11_Witness ==
  /\ Located
  /\ Len(prices) >= 20
  /\ ~Ordered(prices)
  /\ PivotHighsAt(ByDate) # {}
  /\ PivotLowsAt(ByDate) # {}
  /\ Levels.support \in PivotPrices(ByDate)
  /\ Levels.resistance \in PivotPrices(ByDate)

\* C12: when the latest close is positive, the levels of findKeyLevels and
\* the levels of the result of detectWyckoffPhase lie strictly on either side
\* of it (histories in date order, or long enough to be sorted by the code)
C12_LevelsBracketClose ==
  /\ (Located /\ Len(prices) > 0 /\ (Ordered(prices) \/ Len(prices) >= 20)
        /\ LatestBar(prices).close > 0)
       => /\ Levels.support < LatestBar(prices).close
          /\ LatestBar(prices).close < Levels.resistance
  /\ (Analysed /\ Len(prices) > 0 /\ (Ordered(prices) \/ Len(prices) >= 50)
        /\ LatestBar(prices).close > 0)
       => /\ Result.support < LatestBar(prices).close
          /\ LatestBar(prices).close < Result.resistance

\* a history of at least 50 bars whose support is a pivot and whose
\* resistance is the 5% fallback, in both results
C12_Witness ==
  /\ Located
  /\ Analysed
  /\ Len(prices) >= 50
  /\ Levels.support \in PivotPrices(ByDate)
  /\ PivotsAbove(ByDate, LatestBar(prices).close) = {}
  /\ Result.support = Levels.support
  /\ Result.resistance = Levels.resistance

\* ------------------------------------------------------------------------
\* identifyTrend on a grid of arguments
\* ------------------------------------------------------------------------
TrendPrices == {Fx(96), Fx(98), Fx(100), Fx(102), Fx(104)}

\* a moving average is absent (null) or one of the prices
TrendAverages == {Null} \cup {Some(m) : m \in TrendPrices}

TrendInputs ==
  [currentPrice : TrendPrices, ma20 : TrendAverages, ma50 : TrendAverages,
   ma200 : {Null, Some(Fx(100))}]

InitTrend ==
  /\ trendIn \in TrendInputs
  /\ trendOut = <<>>
  /\ IdleWyckoff /\ IdleIndicators /\ IdleTargets /\ IdleRecommendation /\ IdleScore
  /\ IdleLevels /\ IdleCalls /\ IdleStore /\ IdleChunks /\ IdleCron /\ IdleJob

\* one call of identifyTrend
IdentifyTrend ==
  /\ trendIn # <<>>
  /\ trendOut = <<>>
  /\ trendOut' = <<identifyTrend(trendIn.currentPrice, trendIn.ma20, trendIn.ma50,
                                 trendIn.ma200)>>
  /\ UNCHANGED <<trendIn, wvars, ivars, tvars, rvars, svars, lvars>>
  /\ UNCHANGED <<cvars, pvars, hvars, kvars, jvars>>

NextTrend == IdentifyTrend

SpecTrend == InitTrend /\ [][NextTrend]_vars

\* ------------------------------------------------------------------------
\* Properties of identifyTrend
\* ------------------------------------------------------------------------
\* C13: the trend is bullish exactly when price > MA20, price > MA50 and
\* MA20 > MA50, bearish exactly when price < MA20, price < MA50 and
\* MA20 < MA50, and neutral otherwise, in particular when a comparison is an
\* equality or an average is absent
C13_TrendRule ==
  trendOut # <<>> =>
    LET present == trendIn.ma20 # Null /\ trendIn.ma50 # Null
        price == trendIn.currentPrice
    IN  /\ trendOut[1] = "bullish"
             <=> (present /\ price > Val(trendIn.ma20) /\ price > Val(trendIn.ma50)
                  /\ Val(trendIn.ma20) > Val(trendIn.ma50))
        /\ trendOut[1] = "bearish"
             <=> (present /\ price < Val(trendIn.ma20) /\ price < Val(trendIn.ma50)
                  /\ Val(trendIn.ma20) < Val(trendIn.ma50))
        /\ trendOut[1] \in {"bullish", "bearish", "neutral"}

\* ------------------------------------------------------------------------
\* Properties of calculateRSI
\* ------------------------------------------------------------------------
StrictlyIncreasing(s) == \A i \in 1..(Len(s) - 1) : s[i] < s[i + 1]

\* C14: RSI(14) of at least 15 strictly increasing closes is exactly 100
C14_RisingRSI ==
  (periods # <<>> /\ periods.n = 14 /\ Len(closes) >= 15 /\ StrictlyIncreasing(closes))
    => Indicators.rsi = Some(Fx(100))

\* 30 closes rising by growing steps, the 6 oldest removed: the seed and ten
\* steps of the Wilder recurrence ran on gains only
C14_Witness ==
  /\ periods # <<>>
  /\ periods.n = 14
  /\ pattern = "surging"
  /\ drawn = 30
  /\ Len(closes) = 24
  /\ StrictlyIncreasing(closes)
  /\ Indicators.rsi = Some(Fx(100))

\* ------------------------------------------------------------------------
\* A caller that holds one array of bars and calls the engine functions on
\* it, and on target and recommendation inputs, in any order
\* ------------------------------------------------------------------------
MaxCalls == 3

\* 9 flat bars, 5 rising and 5 falling: 19 bars in date order
ShortSeries ==
  Run(StartPrice, 0, 0, 2, 9) \o Run(StartPrice, 9, 4000, 2, LevelRun)
  \o Run(StartPrice + LevelRun * 4000, 9 + LevelRun, 0 - 4000, 2, LevelRun)

\* 24 bars, delivered newest first
MediumSeries ==
  Reversed(ShortSeries \o Run(StartPrice, 9 + 2 * LevelRun, 20000, 3, LevelRun))

\* 50 bars, the last two exchanged
LongSeries ==
  LastTwoSwapped(Run(StartPrice, 0, 0, 2, LongBase)
                 \o Run(StartPrice, LongBase, 4000, 2, LevelRun)
                 \o Run(StartPrice + LevelRun * 4000, LongBase + LevelRun, 0 - 4000, 3,
                        LevelRun))

CallSeries == {ShortSeries, MediumSeries, LongSeries}

SeriesFunctions == {"calculateIndicators", "findKeyLevels", "detectWyckoffPhase"}

CallTargetInput ==
  [currentPrice |-> Fx(100), phase |-> "markup", support |-> Fx(96),
   resistance |-> Fx(104), ma20 |-> Some(Fx(98)), ma50 |-> Null]

CallRecommendationInput ==
  [currentPrice |-> Fx(100), phase |-> "accumulation", subPhase |-> "C", strength |-> 60,
   targetPrice |-> Fx(112), cutLossPrice |-> Fx(95), support |-> Fx(97),
   resistance |-> Fx(110), ma200 |-> Some(Fx(95)), rsi14 |-> Some(Fx(40)),
   foreignNetFlow |-> Null, marketBreadthPercent |-> Some(Fx(60))]

\* variant: a function keeps the argument of its previous call in a module
\* variable and analyses that one
EngineCallStale(fn, input) ==
  LET earlier == {i \in 1..Len(calls) : calls[i].fn = fn}
      arg == IF earlier = {} THEN input
             ELSE calls[CHOOSE i \in earlier : \A k \in earlier : k <= i].input
  IN  CASE fn = "calculateIndicators" -> calculateIndicators(arg)
        [] fn = "findKeyLevels" -> findKeyLevels(arg)
        [] fn = "detectWyckoffPhase" -> detectWyckoffPhase(arg)
        [] fn = "calculateTargetAndCutLoss" ->
             calculateTargetAndCutLoss(arg.currentPrice, arg.phase, arg.support,
                                       arg.resistance, arg.ma20, arg.ma50)
        [] OTHER -> generateRecommendation(arg)

\* what a call of an engine function returns: the body reads its arguments
\* and nothing else
EngineCall(fn, input) ==
  CASE fn = "calculateIndicators" -> calculateIndicators(input)
    [] fn = "findKeyLevels" -> findKeyLevels(input)
    [] fn = "detectWyckoffPhase" -> detectWyckoffPhase(input)
    [] fn = "calculateTargetAndCutLoss" ->
         calculateTargetAndCutLoss(input.currentPrice, input.phase, input.support,
                                   input.resistance, input.ma20, input.ma50)
    [] OTHER -> generateRecommendation(input)

\* variant: prices.sort(...) without the spread reorders the array itself
SortInPlace(array) == [original |-> SortByDate(array), copy |-> SortByDate(array)]

\* [...prices].sort(...): the spread makes a copy and sort reorders the copy
SpreadSort(array) == [original |-> array, copy |-> SortByDate(array)]

\* the caller's array after a call: findKeyLevels below 20 bars and
\* calculateIndicators on no bars return before any sort
ArrayAfter(fn, array) ==
  IF fn = "findKeyLevels" /\ Len(array) < 20 THEN array
  ELSE IF Len(array) = 0 THEN array
  ELSE SpreadSort(array).original

CallRecord(fn, input) == [fn |-> fn, input |-> input, output |-> EngineCall(fn, input)]

InitCalls ==
  /\ prices \in CallSeries
  /\ wres = <<>>
  /\ calls = <<>>
  /\ IdleIndicators /\ IdleTargets /\ IdleRecommendation /\ IdleScore
  /\ IdleLevels /\ IdleTrend /\ IdleStore /\ IdleChunks /\ IdleCron /\ IdleJob

\* the caller turns to another history
TakeSeries(series) ==
  /\ Len(calls) < MaxCalls
  /\ series # prices
  /\ prices' = series
  /\ UNCHANGED <<wres, calls, ivars, tvars, rvars, svars, lvars, dvars, pvars, hvars, kvars, jvars>>

\* one call of calculateIndicators, findKeyLevels or detectWyckoffPhase on
\* the caller's array
CallOnSeries(fn) ==
  /\ Len(calls) < MaxCalls
  /\ calls' = Append(calls, CallRecord(fn, prices))
  /\ prices' = ArrayAfter(fn, prices)
  /\ UNCHANGED <<wres, ivars, tvars, rvars, svars, lvars, dvars, pvars, hvars, kvars, jvars>>

\* one call of calculateTargetAndCutLoss
CallTargets ==
  /\ Len(calls) < MaxCalls
  /\ calls' = Append(calls, CallRecord("calculateTargetAndCutLoss", CallTargetInput))
  /\ UNCHANGED <<wvars, ivars, tvars, rvars, svars, lvars, dvars, pvars, hvars, kvars, jvars>>

\* one call of generateRecommendation
CallRecommendation ==
  /\ Len(calls) < MaxCalls
  /\ calls' = Append(calls, CallRecord("generateRecommendation", CallRecommendationInput))
  /\ UNCHANGED <<wvars, ivars, tvars, rvars, svars, lvars, dvars, pvars, hvars, kvars, jvars>>

NextCalls ==
  \/ \E series \in CallSeries : TakeSeries(series)
  \/ \E fn \in SeriesFunctions : CallOnSeries(fn)
  \/ CallTargets
  \/ CallRecommendation

SpecCalls == InitCalls /\ [][NextCalls]_vars

MaxRuns == 2

MaxDays == 2

Tickers == {"BBCA.JK", "TLKM.JK"}

\* search and refresh are the two POST handlers; cron is the worker of
\* workers/cron/index.ts, cronWithMetrics the worker that also saves metrics
RunKinds == {"search", "refresh", "cron", "cronWithMetrics"}

\* what an analysis of the data fetched by a run comes to
Outcomes == {"accumulation", "markup"}

\* INSERT ... ON CONFLICT (ticker_id, date) DO UPDATE on a table with
\* UNIQUE(ticker_id, date): the row of that key is replaced
Upsert(rows, row) ==
  {x \in rows : ~(x.tickerId = row.tickerId /\ x.date = row.date)} \cup {row}

RowsOf(rows, ticker, date) == {x \in rows : x.tickerId = ticker /\ x.date = date}

\* the row of wyckoff_analysis a run writes: every analysis column is set
AnalysisRow(run) == [tickerId |-> run.ticker, date |-> run.date, analysis |-> run.outcome]

\* the row of metrics_daily the POST handlers write: every metric column is set
MetricsRow(run) ==
  [tickerId |-> run.ticker, date |-> run.date, averages |-> run.outcome,
   others |-> run.outcome]

\* the row the cron worker with metrics leaves: it sets ma_20, ma_50, ma_200,
\* rsi_14 and macd_histogram; the other columns are NULL on insert and keep
\* their value on conflict
PartialMetricsRow(rows, run) ==
  [tickerId |-> run.ticker, date |-> run.date, averages |-> run.outcome,
   others |-> IF RowsOf(rows, run.ticker, run.date) = {} THEN "NULL"
              ELSE (CHOOSE x \in RowsOf(rows, run.ticker, run.date) : TRUE).others]

InitStore ==
  /\ today = 1
  /\ wyckoffRows = {}
  /\ metricsRows = {}
  /\ runs = <<>>
  /\ completed = <<>>
  /\ IdleWyckoff /\ IdleIndicators /\ IdleTargets /\ IdleRecommendation /\ IdleScore
  /\ IdleLevels /\ IdleTrend /\ IdleCalls /\ IdleChunks /\ IdleCron /\ IdleJob

\* a run has fetched the history of a ticker, analysed it and read the
\* calendar day
StartRun(kind, ticker, outcome) ==
  /\ Len(runs) < MaxRuns
  /\ runs' = Append(runs, [kind |-> kind, ticker |-> ticker, date |-> today,
                           outcome |-> outcome, pc |-> "analysed"])
  /\ UNCHANGED <<today, wyckoffRows, metricsRows, completed>>
  /\ UNCHANGED <<wvars, ivars, tvars, rvars, svars, lvars, dvars, cvars, hvars, kvars, jvars>>

\* await db.insert(wyckoffAnalysis)...onConflictDoUpdate; the cron worker of
\* workers/cron/index.ts is done with the ticker after this statement
SaveAnalysis(r) ==
  /\ runs[r].pc = "analysed"
  /\ wyckoffRows' = Upsert(wyckoffRows, AnalysisRow(runs[r]))
  /\ runs' = [runs EXCEPT ![r].pc = IF runs[r].kind = "cron" THEN "done" ELSE "saved"]
  /\ completed' = IF runs[r].kind = "cron" THEN Append(completed, r) ELSE completed
  /\ UNCHANGED <<today, metricsRows>>
  /\ UNCHANGED <<wvars, ivars, tvars, rvars, svars, lvars, dvars, cvars, hvars, kvars, jvars>>

\* await db.insert(metricsDaily)...onConflictDoUpdate, and the run returns
SaveMetrics(r) ==
  /\ runs[r].pc = "saved"
  /\ metricsRows' = Upsert(metricsRows,
                           IF runs[r].kind = "cronWithMetrics"
                           THEN PartialMetricsRow(metricsRows, runs[r])
                           ELSE MetricsRow(runs[r]))
  /\ runs' = [runs EXCEPT ![r].pc = "done"]
  /\ completed' = Append(completed, r)
  /\ UNCHANGED <<today, wyckoffRows>>
  /\ UNCHANGED <<wvars, ivars, tvars, rvars, svars, lvars, dvars, cvars, hvars, kvars, jvars>>

\* midnight (UTC) passes
NextDay ==
  /\ today < MaxDays
  /\ today' = today + 1
  /\ UNCHANGED <<wyckoffRows, metricsRows, runs, completed>>
  /\ UNCHANGED <<wvars, ivars, tvars, rvars, svars, lvars, dvars, cvars, hvars, kvars, jvars>>

NextStore ==
  \/ \E kind \in RunKinds, ticker \in Tickers, outcome \in Outcomes :
       StartRun(kind, ticker, outcome)
  \/ \E r \in 1..Len(runs) : SaveAnalysis(r)
  \/ \E r \in 1..Len(runs) : SaveMetrics(r)
  \/ NextDay

SpecStore == InitStore /\ [][NextStore]_vars

\* ------------------------------------------------------------------------
\* Properties of the stored analyses
\* ------------------------------------------------------------------------
RunsFor(ticker, date) ==
  {r \in 1..Len(runs) : runs[r].ticker = ticker /\ runs[r].date = date}

\* the positions in completed of the runs for a ticker and day
ReturnedFor(ticker, date) ==
  {k \in 1..Len(completed) : completed[k] \in RunsFor(ticker, date)}

LastReturned(ticker, date) ==
  runs[completed[CHOOSE k \in ReturnedFor(ticker, date) :
                   \A m \in ReturnedFor(ticker, date) : m <= k]]

\* C17: once the runs for a ticker and day have all returned, each table
\* holds exactly one row for that ticker and day, and its analysis columns
\* are those of the run that returned last
C17_OneRowLastWrite ==
  \A ticker \in Tickers : \A date \in 1..MaxDays :
    (RunsFor(ticker, date) # {} /\ \A r \in RunsFor(ticker, date) : runs[r].pc = "done")
      => /\ Cardinality(RowsOf(wyckoffRows, ticker, date)) = 1
         /\ Cardinality(RowsOf(metricsRows, ticker, date)) = 1
         /\ \A x \in RowsOf(wyckoffRows, ticker, date) :
              x.analysis = LastReturned(ticker, date).outcome
         /\ \A x \in RowsOf(metricsRows, ticker, date) :
              /\ x.averages = LastReturned(ticker, date).outcome
              /\ x.others = LastReturned(ticker, date).outcome

\* ------------------------------------------------------------------------
\* generateRecommendation called again after the input of one factor changed
\* ------------------------------------------------------------------------
ShiftPlans == {<<Fx(120), Fx(95)>>, <<Fx(106), Fx(95)>>, <<Fx(90), Fx(105)>>}

\* the values each optional input moves through
ShiftValues ==
  [ma200 |-> {Null, Some(Fx(80)), Some(Fx(95)), Some(Fx(105)), Some(Fx(125))},
   rsi14 |-> {Null, Some(Fx(20)), Some(Fx(40)), Some(Fx(50)), Some(Fx(80))},
   foreignNetFlow |-> {Null, Some(2000000), Some(500000), Some(0 - 2000000)},
   marketBreadthPercent |-> {Some(Fx(80)), Some(Fx(60)), Some(Fx(20))}]

ShiftFields == {"ma200", "rsi14", "foreignNetFlow", "marketBreadthPercent"}

ShiftInputs ==
  {[currentPrice |-> Fx(100), phase |-> pc[1], subPhase |-> pc[2], strength |-> pc[3],
    targetPrice |-> Fx(106), cutLossPrice |-> Fx(95),
    support |-> Fx(97), resistance |-> Fx(110),
    ma200 |-> Null, rsi14 |-> Some(Fx(50)), foreignNetFlow |-> Null,
    marketBreadthPercent |-> Some(Fx(60))] : pc \in PhaseCases}

InitShift ==
  /\ rin \in ShiftInputs
  /\ rres = <<generateRecommendation(rin)>>
  /\ rscore = <<ScoreLocals(ScoredFactors(rin))>>
  /\ IdleWyckoff /\ IdleIndicators /\ IdleTargets /\ IdleScore
  /\ IdleLevels /\ IdleTrend /\ IdleCalls /\ IdleStore /\ IdleChunks /\ IdleCron /\ IdleJob

\* the recommendation is generated again for the changed input
Readvise(input) ==
  /\ input # rin
  /\ rin' = input
  /\ rres' = <<generateRecommendation(input)>>
  /\ rscore' = <<ScoreLocals(ScoredFactors(input))>>
  /\ UNCHANGED <<wvars, ivars, tvars, svars, lvars, dvars, cvars, pvars, hvars, kvars, jvars>>

\* a new analysis gives another phase, sub-phase or strength
RevisePhase(pc) ==
  Readvise([rin EXCEPT !.phase = pc[1], !.subPhase = pc[2], !.strength = pc[3]])

\* MA200, RSI, foreign flow or market breadth changes, appears or disappears
ReviseValue(field, value) == Readvise([rin EXCEPT ![field] = value])

\* the target and the cut-loss price change
RevisePlan(pp) == Readvise([rin EXCEPT !.targetPrice = pp[1], !.cutLossPrice = pp[2]])

NextShift ==
  \/ \E pc \in PhaseCases : RevisePhase(pc)
  \/ \E field \in ShiftFields : \E value \in ShiftValues[field] : ReviseValue(field, value)
  \/ \E pp \in ShiftPlans : RevisePlan(pp)

SpecShift == InitShift /\ [][NextShift]_vars

\* ------------------------------------------------------------------------
\* Properties of the score across two calls
\* ------------------------------------------------------------------------
SignalRank(signal) ==
  CASE signal = "bearish" -> 0 - 1
    [] signal = "neutral" -> 0
    [] OTHER -> 1

\* evaluation g is more bullish than evaluation f of the same factor
MoreBullish(f, g) ==
  \/ SignalRank(g.signal) > SignalRank(f.signal)
  \/ f.signal = "bullish" /\ g.signal = "bullish" /\ g.weight > f.weight
  \/ f.signal = "bearish" /\ g.signal = "bearish" /\ g.weight < f.weight

\* the same factors take part before and after, one of them is evaluated
\* more bullish and the others are evaluated as before
OneFactorMoreBullish(before, after) ==
  /\ Len(before) = Len(after)
  /\ \A k \in 1..Len(before) : before[k].name = after[k].name
  /\ \E k \in 1..Len(before) :
       /\ MoreBullish(before[k], after[k])
       /\ \A m \in 1..Len(before) :
            m # k => (before[m].signal = after[m].signal /\ before[m].weight = after[m].weight)

ScoreNotLower ==
  OneFactorMoreBullish(rres[1].factors, rres'[1].factors)
    => /\ rscore'[1].normalizedScore >= rscore[1].normalizedScore
       /\ ActionRank(rres'[1].action) >= ActionRank(rres[1].action)

\* C18: with the participating factors unchanged, a step that makes the
\* evaluation of one factor more bullish and leaves the others as they were
\* lowers neither the normalized score nor the action
C18_Monotone == [][ScoreNotLower]_vars

\* five factors take part and the RSI factor, neutral in the first call, is
\* now bullish while the phase factor is bearish
C18_Witness ==
  /\ Len(rres[1].factors) = 5
  /\ rin.rsi14 = Some(Fx(20))
  /\ rres[1].factors[3].signal = "bullish"
  /\ rin.ma200 = Some(Fx(95))
  /\ rin.phase = "distribution"
  /\ rres[1].factors[1].signal = "bearish"

\* ------------------------------------------------------------------------
\* Properties of the signals and rules of detectWyckoffPhase
\* ------------------------------------------------------------------------
\* C19: for a history of at least 50 bars the oversold flags are true exactly
\* when RSI(14), respectively MFI(14), is a number below 30 and the overbought
\* flags exactly when it is a number above 70; a value of exactly 0 counts as
\* a number
C19_ExtremeFlags ==
  (Analysed /\ Len(prices) >= 50) =>
    LET s == Signals
        rsi == s.indicators.rsi14
        mfi == s.indicators.mfi14
    IN  /\ s.rsiOversold <=> (rsi # Null /\ Val(rsi) < Fx(30))
        /\ s.rsiOverbought <=> (rsi # Null /\ Val(rsi) > Fx(70))
        /\ s.mfiOversold <=> (mfi # Null /\ Val(mfi) < Fx(30))
        /\ s.mfiOverbought <=> (mfi # Null /\ Val(mfi) > Fx(70))

\* the rule chain reached the accumulation branch
AccumulationFires(s) ==
  s.isConsolidating /\ (s.priceNearSupport \/ s.rsiOversold \/ s.mfiOversold)

\* the rule chain reached the distribution branch: consolidation rules out
\* markup, so only the accumulation branch stands before it
DistributionFires(s) ==
  /\ s.isConsolidating
  /\ ~(s.priceNearSupport \/ s.rsiOversold \/ s.mfiOversold)
  /\ s.priceNearResistance \/ s.rsiOverbought \/ s.mfiOverbought

\* sub-phase and strength by the first of pattern, decreasing volume, neither
Graded(r, patternHolds, volumePattern, bonuses) ==
  /\ patternHolds => r.subPhase = "C" /\ r.strength = 30 + bonuses
  /\ (~patternHolds /\ volumePattern = "decreasing")
       => r.subPhase = "B" /\ r.strength = 20 + bonuses
  /\ (~patternHolds /\ volumePattern # "decreasing")
       => r.subPhase = "A" /\ r.strength = 10 + bonuses

Points(first, second, third) ==
  (IF first THEN 15 ELSE 0) + (IF second THEN 15 ELSE 0) + (IF third THEN 10 ELSE 0)

\* C20: when the accumulation rule fires the sub-phase is C with higher lows,
\* else B with decreasing volume, else A, and the strength is 30, 20 or 10
\* plus 15 for RSI oversold, 15 for MFI oversold and 10 for a positive MACD
\* histogram; the distribution rule is the same with lower highs, the
\* overbought flags and a negative MACD histogram
C20_SubPhaseAndStrength ==
  (Analysed /\ Len(prices) >= 50) =>
    LET s == Signals
        histogram == Result.indicators.macdHistogram
    IN  /\ AccumulationFires(s) =>
             /\ Result.phase = "accumulation"
             /\ Graded(Result, s.higherLows, s.volumePattern,
                       Points(s.rsiOversold, s.mfiOversold,
                              histogram # Null /\ Val(histogram) > 0))
        /\ DistributionFires(s) =>
             /\ Result.phase = "distribution"
             /\ Graded(Result, s.lowerHighs, s.volumePattern,
                       Points(s.rsiOverbought, s.mfiOverbought,
                              histogram # Null /\ Val(histogram) < 0))

\* a consolidating history near support with neither higher lows nor a
\* rising volume: sub-phase B with the RSI and the MACD bonus, 20 + 15 + 10
C20_Witness ==
  /\ Analysed
  /\ Len(prices) >= 50
  /\ AccumulationFires(Signals)
  /\ ~Signals.higherLows
  /\ Signals.volumePattern = "decreasing"
  /\ Signals.rsiOversold
  /\ Result.subPhase = "B"
  /\ Result.strength = 45

\* the rule chain reached the markup branch: without consolidation neither
\* the accumulation nor the distribution branch can be taken
MarkupFires(s) == s.trend = "bullish" /\ ~s.isConsolidating

MarkdownFires(s) == s.trend = "bearish" /\ ~s.isConsolidating

\* sub-phase D with 25 when the averages are apart in the rule's direction,
\* else C with 15, plus 20, 15 and 10 for the three bonuses
Trending(r, apart, volumeIncreasing, macdAgrees, rsiHasRoom) ==
  /\ r.subPhase = (IF apart THEN "D" ELSE "C")
  /\ r.strength = (IF apart THEN 25 ELSE 15)
                  + (IF volumeIncreasing THEN 20 ELSE 0)
                  + (IF macdAgrees THEN 15 ELSE 0)
                  + (IF rsiHasRoom THEN 10 ELSE 0)

\* C21: when the markup rule fires the sub-phase is D with base 25 if
\* MA20 > MA50 and C with base 15 otherwise, plus 20 for increasing volume,
\* 15 for a positive MACD histogram and 10 when RSI is not overbought; the
\* markdown rule is the same with MA20 < MA50, a negative MACD histogram and
\* RSI not oversold
C21_TrendRules ==
  (Analysed /\ Len(prices) >= 50) =>
    LET s == Signals
        ind == Result.indicators
    IN  /\ MarkupFires(s) =>
             /\ Result.phase = "markup"
             /\ Trending(Result, Val(ind.ma20) > Val(ind.ma50),
                         s.volumePattern = "increasing",
                         ind.macdHistogram # Null /\ Val(ind.macdHistogram) > 0,
                         ~s.rsiOverbought)
        /\ MarkdownFires(s) =>
             /\ Result.phase = "markdown"
             /\ Trending(Result, Val(ind.ma20) < Val(ind.ma50),
                         s.volumePattern = "increasing",
                         ind.macdHistogram # Null /\ Val(ind.macdHistogram) < 0,
                         ~s.rsiOversold)

\* a rising, non-consolidating history with growing volume: markup, sub-phase
\* D, with all three bonuses, 25 + 20 + 15 + 10
C21_Witness ==
  /\ Analysed
  /\ Len(prices) >= 50
  /\ MarkupFires(Signals)
  /\ Signals.volumePattern = "increasing"
  /\ ~Signals.rsiOverbought
  /\ Result.subPhase = "D"
  /\ Result.strength = 70

\* ------------------------------------------------------------------------
\* Properties of the alignment loop of calculateMACD
\* ------------------------------------------------------------------------
\* the k-th entry of calculateEMA(series, period) is the average as of bar
\* period - 1 + k of the series
BarOfEntry(period, k) == period - 1 + k

\* the values the alignment loop pushes for the current closes
MacdValues ==
  MacdFrom(calculateEMA(closes, periods.fast), calculateEMA(closes, periods.slow),
           periods.slow - periods.fast, 1, Len(closes) - periods.slow + 1)

\* C22: with fast < slow and at least slow + signal closes, slow-EMA entry i
\* is paired with fast-EMA entry i + (slow - fast), which always exists and
\* belongs to the same bar; the MACD series has len - slow + 1 entries and
\* its last entry, the returned MACD line, is the last fast-EMA value minus
\* the last slow-EMA value, both as of the latest bar
C22_MACDAlignment ==
  (periods # <<>> /\ ires # <<>> /\ periods.fast < periods.slow
   /\ Len(closes) >= periods.slow + periods.signal) =>
    LET fastEMA == calculateEMA(closes, periods.fast)
        slowEMA == calculateEMA(closes, periods.slow)
        shift == periods.slow - periods.fast
        macdValues == MacdValues
    IN  /\ \A i \in 1..Len(slowEMA) :
             /\ i + shift \in 1..Len(fastEMA)
             /\ BarOfEntry(periods.fast, i + shift) = BarOfEntry(periods.slow, i)
             /\ macdValues[i] = fastEMA[i + shift] - slowEMA[i]
        /\ Len(macdValues) = Len(closes) - periods.slow + 1
        /\ BarOfEntry(periods.fast, Len(fastEMA)) = Len(closes)
        /\ BarOfEntry(periods.slow, Len(slowEMA)) = Len(closes)
        /\ macdValues[Len(macdValues)] = fastEMA[Len(fastEMA)] - slowEMA[Len(slowEMA)]
        /\ ires[1].macd.macdLine = Some(fastEMA[Len(fastEMA)] - slowEMA[Len(slowEMA)])

\* the shortest series the default periods accept, 26 + 9 closes of a
\* zigzag: the MACD series has 10 entries and the line is not 0
C22_Witness ==
  /\ periods # <<>>
  /\ ires # <<>>
  /\ periods.fast = 12
  /\ periods.slow = 26
  /\ Len(closes) = periods.slow + periods.signal
  /\ pattern = "zigzag"
  /\ Len(MacdValues) = 10
  /\ ires[1].macd.macdLine \notin {Null, Some(0)}

\* ------------------------------------------------------------------------
\* The volume metrics of calculateIndicators on histories around 20 bars:
\* a quiet base, then single bars of differing volume, 0 for a day with no
\* trade
\* ------------------------------------------------------------------------
MaxVolumeBars == 22

BaseVolumes == {0, 2}

BarVolumes == {0, 1, 3}

InitVolume ==
  /\ prices \in {Run(StartPrice, 0, 0, volume, 17) : volume \in BaseVolumes}
  /\ wres = <<>>
  /\ IdleIndicators /\ IdleTargets /\ IdleRecommendation /\ IdleScore
  /\ IdleLevels /\ IdleTrend /\ IdleCalls /\ IdleStore /\ IdleChunks /\ IdleCron /\ IdleJob

\* the upstream source delivers one more daily bar
AppendBar(volume) ==
  /\ Len(prices) < MaxVolumeBars
  /\ prices' = prices \o Run(LastClose(prices), LastDate(prices), 0, volume, 1)
  /\ wres' = <<>>
  /\ UNCHANGED <<ivars, tvars, rvars, svars, lvars, dvars, cvars, pvars, hvars, kvars, jvars>>

NextVolume ==
  \/ \E volume \in BarVolumes : AppendBar(volume)
  \/ Detect

SpecVolume == InitVolume /\ [][NextVolume]_vars

\* the sum of the volumes of the latest 20 bars
LastVolumes == SumFrom([i \in 1..Len(prices) |-> prices[i].volume],
                       Len(prices) - 19, Len(prices))

LatestVolume == prices[Len(prices)].volume

\* C23 as stated: with at least 20 bars volumeAvg20 is the arithmetic mean of
\* the last 20 volumes and volumeRatio the latest volume divided by it, both
\* non-null; with fewer both are null
C23_VolumeMean ==
  Analysed =>
    LET avg == Result.indicators.volumeAvg20
        ratio == Result.indicators.volumeRatio
    IN  IF Len(prices) >= 20
        THEN /\ avg # Null
             /\ Val(avg) * 20 = Fx(LastVolumes)
             /\ ratio # Null
             /\ Val(ratio) = FxDiv(Fx(LatestVolume), Val(avg))
        ELSE avg = Null /\ ratio = Null

\* C23, amended: with at least 20 bars volumeAvg20 is the mean of the last 20
\* volumes rounded to the nearest integer, halves upwards, and volumeRatio is
\* the latest volume divided by volumeAvg20, or null when volumeAvg20 is 0;
\* with fewer than 20 bars both are null
C23_VolumeRounded ==
  Analysed =>
    LET avg == Result.indicators.volumeAvg20
        ratio == Result.indicators.volumeRatio
    IN  IF Len(prices) >= 20
        THEN /\ avg = Some(Fx((LastVolumes + 10) \div 20))
             /\ ratio = (IF Val(avg) = 0 THEN Null
                         ELSE Some(FxDiv(Fx(LatestVolume), Val(avg))))
        ELSE avg = Null /\ ratio = Null

\* 21 bars whose last 20 volumes do not add up to a multiple of 20: the
\* average is a whole number other than the mean and the ratio is a number
C23_Witness ==
  /\ Analysed
  /\ Len(prices) = 21
  /\ LastVolumes % 20 # 0
  /\ Result.indicators.volumeAvg20 # Null
  /\ Val(Result.indicators.volumeAvg20) * 20 # Fx(LastVolumes)
  /\ Result.indicators.volumeRatio # Null

\* ------------------------------------------------------------------------
\* hasHigherLows / hasLowerHighs on a growing series: bars follow the shape
\* of the series, the later ones with a dip or a spike
\* ------------------------------------------------------------------------
MaxChunkBars == 17

QuietChunkBars == 12

Counts == {2, 3}

Dips == {0 - Fx(20), 0, Fx(20)}

PatternAnswers(series, count) ==
  [count |-> count,
   higherLows |-> hasHigherLows(series, count),
   lowerHighs |-> hasLowerHighs(series, count)]

InitChunks ==
  /\ pattern \in Patterns
  /\ prices = <<>>
  /\ hres \in {<<PatternAnswers(<<>>, count)>> : count \in Counts}
  /\ wres = <<>> /\ closes = <<>> /\ drawn = 0 /\ periods = <<>> /\ ires = <<>>
  /\ IdleTargets /\ IdleRecommendation /\ IdleScore
  /\ IdleLevels /\ IdleTrend /\ IdleCalls /\ IdleStore /\ IdleCron /\ IdleJob

\* one more daily bar arrives and both patterns are looked for again
ExtendSeries(dip) ==
  /\ Len(prices) < MaxChunkBars
  /\ dip = 0 \/ Len(prices) >= QuietChunkBars
  /\ prices' = prices \o Run(PatternClose(pattern, Len(prices) + 1) + dip,
                            Len(prices), 0, 2, 1)
  /\ hres' = <<PatternAnswers(prices', hres[1].count)>>
  /\ UNCHANGED <<wres, closes, pattern, drawn, periods, ires>>
  /\ UNCHANGED <<tvars, rvars, svars, lvars, dvars, cvars, pvars, kvars, jvars>>

NextChunks == \E dip \in Dips : ExtendSeries(dip)

SpecChunks == InitChunks /\ [][NextChunks]_vars

\* the least low and the greatest high of bars from..to
LeastLow(from, to) ==
  CHOOSE m \in {prices[i].low : i \in from..to} : \A i \in from..to : prices[i].low >= m

GreatestHigh(from, to) ==
  CHOOSE m \in {prices[i].high : i \in from..to} : \A i \in from..to : prices[i].high <= m

\* C24: both functions answer false for fewer than count * 5 bars; otherwise
\* chunk k holds bars (k - 1) * size + 1 .. k * size with size the floor of
\* len / count, counted from the oldest bar, so that the latest len mod count
\* bars are in no chunk; higher-lows holds exactly when each chunk's least
\* low is above the one before, lower-highs exactly when each chunk's
\* greatest high is below the one before
C24_Chunks ==
  hres # <<>> =>
    LET count == hres[1].count
        size == Len(prices) \div count
    IN  IF Len(prices) < count * 5
        THEN ~hres[1].higherLows /\ ~hres[1].lowerHighs
        ELSE /\ hres[1].higherLows <=>
                  \A k \in 1..(count - 1) :
                    LeastLow(k * size + 1, (k + 1) * size)
                      > LeastLow((k - 1) * size + 1, k * size)
             /\ hres[1].lowerHighs <=>
                  \A k \in 1..(count - 1) :
                    GreatestHigh(k * size + 1, (k + 1) * size)
                      < GreatestHigh((k - 1) * size + 1, k * size)

\* 17 rising bars in three chunks of five: the two latest bars are in no
\* chunk, and the dip of the latest one below every earlier low does not
\* stop higher-lows from holding
C24_Witness ==
  /\ hres # <<>>
  /\ hres[1].count = 3
  /\ Len(prices) = 17
  /\ prices[17].low < LeastLow(1, 15)
  /\ hres[1].higherLows
  /\ ~hres[1].lowerHighs

\* ------------------------------------------------------------------------
\* The cron worker's analysis and the application's on the same histories
\* ------------------------------------------------------------------------
InitCron ==
  /\ prices \in BaseSeries
  /\ wres = <<>>
  /\ cres = <<>>
  /\ IdleIndicators /\ IdleTargets /\ IdleRecommendation /\ IdleScore
  /\ IdleLevels /\ IdleTrend /\ IdleCalls /\ IdleStore /\ IdleChunks /\ IdleJob

\* the upstream source has RunLen more daily bars for both kinds of run
DeliverRun(drift) ==
  /\ Len(prices) + RunLen <= MaxBars
  /\ LastClose(prices) + RunLen * drift >= Fx(70)
  /\ LastClose(prices) + RunLen * drift <= Fx(130)
  /\ prices' = prices \o Run(LastClose(prices), LastDate(prices), drift, 2, RunLen)
  /\ wres' = <<>>
  /\ cres' = <<>>
  /\ UNCHANGED <<ivars, tvars, rvars, svars, lvars, dvars, cvars, pvars, hvars, jvars>>

\* a search or refresh request analyses the history
SearchRun ==
  /\ wres = <<>>
  /\ wres' = <<detectWyckoffPhase(prices)>>
  /\ UNCHANGED <<prices, cres>>
  /\ UNCHANGED <<ivars, tvars, rvars, svars, lvars, dvars, cvars, pvars, hvars, jvars>>

\* the scheduled run analyses the history
CronRun ==
  /\ cres = <<>>
  /\ cres' = <<CronDetectWyckoffPhase(prices)>>
  /\ UNCHANGED <<wvars, ivars, tvars, rvars, svars, lvars, dvars, cvars, pvars, hvars, jvars>>

NextCron ==
  \/ \E drift \in Drifts : DeliverRun(drift)
  \/ SearchRun
  \/ CronRun

SpecCron == InitCron /\ [][NextCron]_vars

\* C25: for a history of at least 50 bars the cron worker's analysis and the
\* application's give the same phase and the same sub-phase
C25_SameClassification ==
  (wres # <<>> /\ cres # <<>> /\ Len(prices) >= 50) =>
    /\ cres[1].phase = wres[1].phase
    /\ cres[1].subPhase = wres[1].subPhase

\* C26: every result has a strength of at most 70 and never sub-phase E;
\* accumulation and distribution carry A, B or C, markup carries D only, and
\* markdown carries D, or C when MA20 equals MA50
C26_ResultShape ==
  Analysed =>
    /\ Result.strength <= 70
    /\ Result.subPhase # "E"
    /\ Result.phase \in {"accumulation", "distribution"}
         => Result.subPhase \in {"A", "B", "C"}
    /\ Result.phase = "markup" => Result.subPhase = "D"
    /\ Result.phase = "markdown" =>
         /\ Result.subPhase \in {"C", "D"}
         /\ Result.subPhase = "C"
              => Result.indicators.ma20 = Result.indicators.ma50

\* a markdown with MA20 equal to MA50, which alone gives sub-phase C, at the
\* greatest strength a markdown C can have, 15 + 20 + 15 + 10
C26_Witness ==
  /\ Analysed
  /\ Len(prices) >= 50
  /\ Result.phase = "markdown"
  /\ Result.subPhase = "C"
  /\ Result.indicators.ma20 = Result.indicators.ma50
  /\ Result.strength = 60

\* C27: the bars of a history given in any order are analysed as they are
\* in order of date: phase, sub-phase, strength, support, resistance and
\* indicators are the same, for fewer than 50 bars as for more
C27_AnyOrder ==
  Analysed =>
    LET inOrder == detectWyckoffPhase(SortByDate(prices))
    IN  /\ Result.phase = inOrder.phase
        /\ Result.subPhase = inOrder.subPhase
        /\ Result.strength = inOrder.strength
        /\ Result.support = inOrder.support
        /\ Result.resistance = inOrder.resistance
        /\ Result.indicators = inOrder.indicators

\* ------------------------------------------------------------------------
\* generateRecommendation while the stored target, cut-loss price and
\* support of a stock at 100 change
\* ------------------------------------------------------------------------
PlanTargets == {Fx(80), Fx(90), Fx(100), Fx(110), Fx(120)}

PlanStops == {Fx(90), Fx(95), Fx(100), Fx(105), Fx(110)}

PlanSupports == {Fx(90), Fx(97), Fx(100), Fx(102), Fx(105)}

\* the next analysis stores another target and cut-loss price
Replan(targetPrice, cutLossPrice) ==
  Readvise([rin EXCEPT !.targetPrice = targetPrice, !.cutLossPrice = cutLossPrice])

\* the next analysis stores another support level, or the price moves
\* against the stored one
Resupport(support) == Readvise([rin EXCEPT !.support = support])

NextPlans ==
  \/ \E targetPrice \in PlanTargets, cutLossPrice \in PlanStops :
       Replan(targetPrice, cutLossPrice)
  \/ \E support \in PlanSupports : Resupport(support)

SpecPlans == InitShift /\ [][NextPlans]_vars

\* the factor analyzeRiskReward contributed, the last one pushed
RiskRewardOf(recommendation) == recommendation.factors[Len(recommendation.factors)]

\* C28: with the cut-loss price at or above the current price the returned
\* riskRewardRatio is 0 and the Risk/Reward factor is bearish with weight
\* 10, whatever the target; the ratio is positive only with the cut-loss
\* price below and the target above the current price
C28_StopAbovePrice ==
  Advised =>
    /\ rin.cutLossPrice >= rin.currentPrice =>
         /\ Recommendation.riskRewardRatio = 0
         /\ RiskRewardOf(Recommendation).name = "Risk/Reward"
         /\ RiskRewardOf(Recommendation).signal = "bearish"
         /\ RiskRewardOf(Recommendation).weight = 10
    /\ Recommendation.riskRewardRatio > 0 =>
         /\ rin.cutLossPrice < rin.currentPrice
         /\ rin.currentPrice < rin.targetPrice

\* a stop above the price with a target above it as well, as a markup
\* whose stop follows MA20 has it
C28_Witness ==
  /\ Advised
  /\ rin.phase = "markup"
  /\ rin.cutLossPrice > rin.currentPrice
  /\ rin.targetPrice > rin.cutLossPrice
  /\ Recommendation.riskRewardRatio = 0
  /\ RiskRewardOf(Recommendation).signal = "bearish"

\* C29: with a positive current price the entry range is well formed,
\* entryPriceMin <= entryPriceMax, and for BUY, STRONG_BUY and HOLD it holds
\* the current price, whatever the support
C29_EntryRangeWellFormed ==
  (Advised /\ rin.currentPrice > 0) =>
    /\ Recommendation.entryPriceMin <= Recommendation.entryPriceMax
    /\ Recommendation.action \in {"BUY", "STRONG_BUY", "HOLD"} =>
         /\ Recommendation.entryPriceMin <= rin.currentPrice
         /\ rin.currentPrice <= Recommendation.entryPriceMax

\* ---------------------------------------------------------------------------
\* The daily job: handleCron walks the tickers of the search history
\* ---------------------------------------------------------------------------

MaxTickers == 3   \* the rows of tickersResult
MaxFetched == 2   \* the most bars one fetch returns

JobTickers == 1..MaxTickers

\* a variant: the catch stands outside the loop, an error ends the walk
CaughtOutside(ticker) == MaxTickers + 1

\* the catch stands inside the loop body: after the error is logged the loop
\* goes on with the next row of tickersResult
Caught(ticker) == ticker + 1

InitJob ==
  /\ jobMetrics \in BOOLEAN
  /\ jobPc = "fetch"
  /\ jobTicker = 1
  /\ jobSaved = 0
  /\ jobFetched = [t \in JobTickers |-> 0 - 1]
  /\ jobOutcome = [t \in JobTickers |-> "pending"]
  /\ priceRows = {}
  /\ analysisRows = {}
  /\ IdleWyckoff /\ IdleIndicators /\ IdleTargets /\ IdleRecommendation /\ IdleScore
  /\ IdleLevels /\ IdleTrend /\ IdleCalls /\ IdleStore /\ IdleChunks /\ IdleCron

JobIdle == <<wvars, ivars, tvars, rvars, svars, lvars, dvars, cvars, pvars, hvars, kvars>>

\* fetchHistoricalDaily answers with fetched bars; a failed request, a bad
\* status and an empty chart all answer with no bars, and the loop continues
FetchTicker(fetched) ==
  /\ jobPc = "fetch"
  /\ jobTicker <= MaxTickers
  /\ jobFetched' = [jobFetched EXCEPT ![jobTicker] = fetched]
  /\ IF fetched = 0
       THEN /\ jobOutcome' = [jobOutcome EXCEPT ![jobTicker] = "noData"]
            /\ jobTicker' = jobTicker + 1
            /\ jobPc' = "fetch"
       ELSE /\ jobPc' = "prices"
            /\ UNCHANGED <<jobOutcome, jobTicker>>
  /\ jobSaved' = 0
  /\ UNCHANGED <<jobMetrics, priceRows, analysisRows>>
  /\ UNCHANGED JobIdle

\* one turn of the price loop: the next fetched bar is written
UpsertPrice ==
  /\ jobPc = "prices"
  /\ jobSaved < jobFetched[jobTicker]
  /\ priceRows' = priceRows \cup {<<jobTicker, jobSaved + 1>>}
  /\ jobSaved' = jobSaved + 1
  /\ jobPc' = IF jobSaved + 1 = jobFetched[jobTicker] THEN "analysis" ELSE "prices"
  /\ UNCHANGED <<jobMetrics, jobTicker, jobFetched, jobOutcome, analysisRows>>
  /\ UNCHANGED JobIdle

\* the statement of the price loop throws: the bar is not written
UpsertPriceFails ==
  /\ jobPc = "prices"
  /\ jobSaved < jobFetched[jobTicker]
  /\ jobOutcome' = [jobOutcome EXCEPT ![jobTicker] = "failed"]
  /\ jobTicker' = Caught(jobTicker)
  /\ jobPc' = "fetch"
  /\ jobSaved' = 0
  /\ UNCHANGED <<jobMetrics, jobFetched, priceRows, analysisRows>>
  /\ UNCHANGED JobIdle

\* the analysis of the fetched bars is written; the first copy of the
\* handler is done with the ticker, the second goes on to the metrics
UpsertAnalysis ==
  /\ jobPc = "analysis"
  /\ analysisRows' = analysisRows \cup {jobTicker}
  /\ IF jobMetrics
       THEN /\ jobPc' = "metrics"
            /\ UNCHANGED <<jobOutcome, jobTicker>>
       ELSE /\ jobOutcome' = [jobOutcome EXCEPT ![jobTicker] = "completed"]
            /\ jobTicker' = jobTicker + 1
            /\ jobPc' = "fetch"
  /\ UNCHANGED <<jobMetrics, jobSaved, jobFetched, priceRows>>
  /\ UNCHANGED JobIdle

\* the analysis statement throws: no row is written
UpsertAnalysisFails ==
  /\ jobPc = "analysis"
  /\ jobOutcome' = [jobOutcome EXCEPT ![jobTicker] = "failed"]
  /\ jobTicker' = Caught(jobTicker)
  /\ jobPc' = "fetch"
  /\ UNCHANGED <<jobMetrics, jobSaved, jobFetched, priceRows, analysisRows>>
  /\ UNCHANGED JobIdle

\* the second copy writes the metrics of the ticker, or fails to
UpsertMetrics(written) ==
  /\ jobPc = "metrics"
  /\ jobOutcome' = [jobOutcome EXCEPT ![jobTicker] = IF written THEN "completed" ELSE "failed"]
  /\ jobTicker' = IF written THEN jobTicker + 1 ELSE Caught(jobTicker)
  /\ jobPc' = "fetch"
  /\ UNCHANGED <<jobMetrics, jobSaved, jobFetched, priceRows, analysisRows>>
  /\ UNCHANGED JobIdle

\* the loop has walked every row: 'Cron job completed'
CompleteRun ==
  /\ jobPc = "fetch"
  /\ jobTicker > MaxTickers
  /\ jobPc' = "done"
  /\ UNCHANGED <<jobMetrics, jobTicker, jobSaved, jobFetched, jobOutcome, priceRows,
                 analysisRows>>
  /\ UNCHANGED JobIdle

NextJob ==
  \/ \E fetched \in 0..MaxFetched : FetchTicker(fetched)
  \/ UpsertPrice
  \/ UpsertPriceFails
  \/ UpsertAnalysis
  \/ UpsertAnalysisFails
  \/ \E written \in BOOLEAN : UpsertMetrics(written)
  \/ CompleteRun

SpecJob == InitJob /\ [][NextJob]_vars

\* every statement the handler awaits settles: the request answers or fails,
\* the database writes the row or throws
FairSpecJob == SpecJob /\ WF_vars(NextJob)

PriceRowsOf(ticker) == {row \in priceRows : row[1] = ticker}

\* only the ticker at hand is in progress: those before it are settled,
\* those after it are untouched
OneAfterAnother ==
  \A t \in JobTickers :
    /\ t < jobTicker => jobOutcome[t] # "pending"
    /\ t > jobTicker =>
         /\ jobOutcome[t] = "pending" /\ jobFetched[t] = 0 - 1
         /\ PriceRowsOf(t) = {} /\ t \notin analysisRows

AnalysisAfterPrices ==
  \A t \in analysisRows :
    /\ jobFetched[t] > 0
    /\ PriceRowsOf(t) = {<<t, k>> : k \in 1..jobFetched[t]}

NoBarsNoRows ==
  \A t \in JobTickers :
    jobFetched[t] = 0 => PriceRowsOf(t) = {} /\ t \notin analysisRows

EveryTickerProcessed == \A t \in JobTickers : jobOutcome[t] # "pending"

\* C30: handleCron processes the tickers one after another; a failure while
\* processing one ticker does not stop the run, every later ticker is still
\* processed and the run completes; the analysis row of a ticker is written
\* only after all of its fetched price rows, and a ticker whose fetch
\* returned no bars gets no price row and no analysis row
C30_RunCompletes ==
  /\ [](OneAfterAnother /\ AnalysisAfterPrices /\ NoBarsNoRows)
  /\ [](jobPc = "done" => EveryTickerProcessed)
  /\ <>(jobPc = "done")

\* the run completed although the first ticker failed after one of its two
\* bars was written; a later ticker has its analysis row
C30_Witness ==
  /\ jobPc = "done"
  /\ jobOutcome[1] = "failed" /\ jobFetched[1] = 2 /\ PriceRowsOf(1) = {<<1, 1>>}
  /\ \E t \in JobTickers : t > 1 /\ t \in analysisRows /\ jobOutcome[t] = "completed"
  /\ \E t \in JobTickers : jobOutcome[t] = "noData"

====
